---- MODULE Spec2Model ----
(***************************************************************************)
(* A model of toobarr's download subsystem: the HTTP handlers that queue   *)
(* Start/Cancel commands (handlers/api.rs), the command consumer           *)
(* DownloadWorker::run and the supervising task process_download           *)
(* (workers/download.rs), the event stream YtDlp::download_with_progress   *)
(* with its line classifier parse_progress_line (yt-dlp/src/client.rs),    *)
(* and the persisted downloads table (models/download.rs).                 *)
(*                                                                         *)
(* Every action is one stretch of code between two suspension points       *)
(* (.await) whose effect another task can observe.                         *)
(***************************************************************************)
EXTENDS Integers, Sequences, FiniteSets, Bags, TLC

VARIABLES
    db,       \* the downloads table: download id (1..Len(db)) -> row
    queue,    \* the mpsc channel of DownloadCommand (main.rs:100)
    reqs,     \* HTTP requests in flight, each at one of its .await points
    nreq,     \* number of HTTP requests received so far
    active,   \* DownloadWorker.active_downloads: download id -> oneshot sender
    states,   \* AppState.download_states: download id -> DownloadStateInfo
    tasks,    \* the spawned supervising tasks, in spawn order
    timers,   \* the cleanup tasks of schedule_state_cleanup that still sleep
    cfg,      \* what the environment may do in this behaviour (never changes)
    locks,    \* the RwLock around each of the two tables: who holds its guard
    log       \* observations, of the kinds in cfg.logging, in order

vars == <<db, queue, reqs, nreq, active, states, tasks, timers, cfg, locks, log>>

----------------------------------------------------------------------------
(* Bounds of the model. *)

\* HTTP requests received in one behaviour of Spec.
MaxRequests == 2
\* Cancel requests received in one behaviour of CancelSpec.
MaxCancels == 1
\* Lines the subprocess of the observed run writes in RunSpec.
MaxRunLines == 4
\* Lines the subprocess of the observed run writes in ProgressSpec.
MaxProgressLines == 4
\* Lines the subprocess of the observed run writes in OrderSpec.
MaxWritten == 3
\* Retry requests received in one behaviour of RetrySpec.
MaxRetries == 1
\* Videos known to the application.
NumVideos == 1
\* Capacity of the command queue in the model (the program's is 100).
QueueCapacity == 2
\* Capacity of the command queue in QueueSpec, where it fills up.
SmallQueueCapacity == 1
\* Downloads accepted, and not yet started, at the start of WorkerSpec.
MaxAccepted == 3
\* Downloads accepted, and not yet started, at the start of ScopeSpec.
MaxScoped == 2
\* Downloads accepted, and not yet started, at the start of LockSpec.
MaxLocked == 2
\* Calls of the numeric token parsers in one behaviour of TokenSpec.
MaxParsed == 2
\* Calls on the builder in one behaviour of BuilderSpec.
MaxCalls == 3
\* Calls of build_with_env in one behaviour of EnvSpec.
MaxBuilt == 1
\* Parts, separated by ':', of an ETA token.
MaxParts == 4
\* Start requests received in one behaviour of QueueSpec.
MaxSubmissions == 2

Videos == 1..NumVideos

----------------------------------------------------------------------------
(* Values. *)

\* Option::None of a string column or variable.
Null == "null"
\* An f64 percent, in tenths of a percent: Pct(14, 6) is 14.6.
Pct(whole, tenths) == 10 * whole + tenths
\* Option::None of DownloadProgress.percent and of downloads.progress_percent.
NoPercent == -1

\* DownloadStatus::as_str
Pending == "pending"
Downloading == "downloading"
Completed == "completed"
Failed == "failed"

CancelledByUser == "Cancelled by user"
NoFileFound == "Download completed but no file found"
ConfigError == "Config error"
CreateDirError == "Failed to create directory"
ExecutionFailed == "failed to execute yt-dlp"
ExitCodeError == "yt-dlp exited with code 1"

\* The output path template handed to the subprocess.
OutputTemplate == "%(title)s.%(ext)s"

----------------------------------------------------------------------------
(* The subprocess's output lines.  A line is the text the tool prints; the *)
(* string tests the classifier makes on it (starts_with, contains, the     *)
(* token that ends in '%', the text after the prefix, the text between the *)
(* first and the last double quote) are tabulated per line in LineFacts.   *)

Fact(starts, contains, pct, tpl, rest, quoted) ==
    [starts |-> starts, contains |-> contains, pct |-> pct, tpl |-> tpl,
     rest |-> rest, quoted |-> quoted]

L_Dest == "[download] Destination: a.mp4"
L_P5 == "  5.0% of 10.00MiB at 1.00MiB/s ETA 00:09"
L_P10 == "[download]  10.0% of 10.00MiB at 1.00MiB/s ETA 00:09"
L_P40 == "download: 40.0% 10.00MiB 1.00MiB/s 00:06"
L_P50 == "[download]  50.0% of 10.00MiB at 1.00MiB/s ETA 00:05"
L_P60 == "[download]  60.0% of 10.00MiB at 1.00MiB/s ETA 00:04"
L_P100 == "[download] 100% of 10.00MiB in 00:10"
L_NoPct == "download: N/A 10.00MiB N/A N/A"
L_Ffmpeg == "[ffmpeg] Fixing MPEG-TS in a.mp4"
L_Error == "ERROR: Video unavailable"
L_Other == "[youtube] abc: Downloading webpage"
L_Already == "[download] a.mp4 has already been downloaded"
L_DestPct == "[download] Destination: 100% a.mp4"
L_Bare == " 14.6%  887.84MiB    7.61MiB/s 01:39"
L_ErrPct == "ERROR: Invalid output template %(titel)s"
L_WarnPct == "WARNING: Ignoring field %(chapter)s"
L_DestAudio == "[download] Destination: a.f140.m4a"
L_Merger == "[Merger] Merging formats into \"a.mkv\""
L_MergerPct == "[Merger] Merging formats into \"50% off.mkv\""

\* pct: the value parse_download_progress leaves in `percent` (the parse of the
\* last whitespace-separated token ending in '%', NoPercent when there is none
\* or it is no number); tpl: the parse of the first token after "download:";
\* rest: the trimmed text after the prefix "[download] Destination:",
\* "WARNING:" or "ERROR:".
LineFacts ==
    (L_Dest :> Fact({"[download] Destination:", "[download]"}, {},
                    NoPercent, NoPercent, "a.mp4", Null)) @@
    (L_P5 :> Fact({}, {"%"}, Pct(5, 0), NoPercent, Null, Null)) @@
    (L_P10 :> Fact({"[download]"}, {"%"}, Pct(10, 0), NoPercent, Null, Null)) @@
    (L_P40 :> Fact({"download:"}, {"%"}, Pct(40, 0), Pct(40, 0), Null, Null)) @@
    (L_P50 :> Fact({"[download]"}, {"%"}, Pct(50, 0), NoPercent, Null, Null)) @@
    (L_P60 :> Fact({"[download]"}, {"%"}, Pct(60, 0), NoPercent, Null, Null)) @@
    (L_P100 :> Fact({"[download]"}, {"%"}, Pct(100, 0), NoPercent, Null, Null)) @@
    (L_NoPct :> Fact({"download:"}, {}, NoPercent, NoPercent, Null, Null)) @@
    (L_Ffmpeg :> Fact({"[ffmpeg]"}, {}, NoPercent, NoPercent, Null, Null)) @@
    (L_Error :> Fact({"ERROR:"}, {}, NoPercent, NoPercent,
                     "Video unavailable", Null)) @@
    (L_Other :> Fact({}, {}, NoPercent, NoPercent, Null, Null)) @@
    (L_Already :> Fact({"[download]"}, {"has already been downloaded"},
                       NoPercent, NoPercent, Null, Null)) @@
    (L_DestPct :> Fact({"[download] Destination:", "[download]"}, {"%"},
                       Pct(100, 0), NoPercent, "100% a.mp4", Null)) @@
    (L_Bare :> Fact({}, {"%"}, Pct(14, 6), NoPercent, Null, Null)) @@
    (L_ErrPct :> Fact({"ERROR:"}, {"%"}, NoPercent, NoPercent,
                      "Invalid output template %(titel)s", Null)) @@
    (L_WarnPct :> Fact({"WARNING:"}, {"%"}, NoPercent, NoPercent,
                       "Ignoring field %(chapter)s", Null)) @@
    (L_DestAudio :> Fact({"[download] Destination:", "[download]"}, {},
                         NoPercent, NoPercent, "a.f140.m4a", Null)) @@
    (L_Merger :> Fact({"[Merger]"}, {"Merging formats"},
                      NoPercent, NoPercent, Null, "a.mkv")) @@
    (L_MergerPct :> Fact({"[Merger]"}, {"Merging formats", "%"},
                         NoPercent, NoPercent, Null, "50% off.mkv"))

StartsWith(line, prefix) == prefix \in LineFacts[line].starts
Contains(line, part) == part \in LineFacts[line].contains

\* DownloadEvent (types/progress.rs); text is the variant's string field.
Event(type, text, percent) == [type |-> type, text |-> text, percent |-> percent]
NoEvent == Event("None", Null, NoPercent)

\* parse_download_progress never returns None: every line it is given yields a
\* DownloadProgress, whose percent may be None.
parse_download_progress(line) == Event("Progress", Null, LineFacts[line].pct)

\* parse_template_progress returns None only for a line with no token after
\* "download:"; no such line is in LineFacts.
parse_template_progress(line) == Event("Progress", Null, LineFacts[line].tpl)

\* A classifier that tries the bare-percent rule before every other rule.
parse_progress_line_percent_first(line, current_filename) ==
    LET Out(ev, cur) == [event |-> ev, cur |-> cur]
        rest == LineFacts[line].rest
        quoted == LineFacts[line].quoted
    IN  IF Contains(line, "%")
          THEN Out(parse_download_progress(line), current_filename)
        ELSE IF StartsWith(line, "[download] Destination:")
          THEN Out(Event("DownloadStarted", rest, NoPercent), rest)
        ELSE IF StartsWith(line, "download:")
          THEN Out(parse_template_progress(line), current_filename)
        ELSE IF StartsWith(line, "[Merger]") \/ Contains(line, "Merging formats")
          THEN Out(Event("MergingFormats", Null, NoPercent),
                   IF quoted # Null THEN quoted ELSE current_filename)
        ELSE IF StartsWith(line, "[EmbedThumbnail]")
          THEN Out(Event("EmbeddingThumbnail", Null, NoPercent), current_filename)
        ELSE IF StartsWith(line, "[Metadata]")
          THEN Out(Event("EmbeddingMetadata", Null, NoPercent), current_filename)
        ELSE IF StartsWith(line, "[ExtractAudio]") \/ StartsWith(line, "[ffmpeg]")
          THEN Out(Event("PostProcessing", line, NoPercent), current_filename)
        ELSE IF Contains(line, "has already been downloaded")
          THEN Out(Event("Finished",
                         IF current_filename = Null THEN "" ELSE current_filename,
                         NoPercent), current_filename)
        ELSE IF StartsWith(line, "WARNING:")
          THEN Out(Event("Warning", rest, NoPercent), current_filename)
        ELSE IF StartsWith(line, "ERROR:")
          THEN Out(Event("Error", rest, NoPercent), current_filename)
        ELSE Out(NoEvent, current_filename)

\* parse_progress_line: the event of a line and the new current_filename.
parse_progress_line(line, current_filename) ==
    LET Out(ev, cur) == [event |-> ev, cur |-> cur]
        rest == LineFacts[line].rest
        quoted == LineFacts[line].quoted
    IN  IF StartsWith(line, "[download] Destination:")
          THEN Out(Event("DownloadStarted", rest, NoPercent), rest)
        ELSE IF StartsWith(line, "[download]") /\ Contains(line, "%")
          THEN Out(parse_download_progress(line), current_filename)
        ELSE IF StartsWith(line, "download:")
          THEN Out(parse_template_progress(line), current_filename)
        ELSE IF Contains(line, "%")
          THEN Out(parse_download_progress(line), current_filename)
        ELSE IF StartsWith(line, "[Merger]") \/ Contains(line, "Merging formats")
          THEN Out(Event("MergingFormats", Null, NoPercent),
                   IF quoted # Null THEN quoted ELSE current_filename)
        ELSE IF StartsWith(line, "[EmbedThumbnail]")
          THEN Out(Event("EmbeddingThumbnail", Null, NoPercent), current_filename)
        ELSE IF StartsWith(line, "[Metadata]")
          THEN Out(Event("EmbeddingMetadata", Null, NoPercent), current_filename)
        ELSE IF StartsWith(line, "[ExtractAudio]") \/ StartsWith(line, "[ffmpeg]")
          THEN Out(Event("PostProcessing", line, NoPercent), current_filename)
        ELSE IF Contains(line, "has already been downloaded")
          THEN Out(Event("Finished",
                         IF current_filename = Null THEN "" ELSE current_filename,
                         NoPercent), current_filename)
        ELSE IF StartsWith(line, "WARNING:")
          THEN Out(Event("Warning", rest, NoPercent), current_filename)
        ELSE IF StartsWith(line, "ERROR:")
          THEN Out(Event("Error", rest, NoPercent), current_filename)
        ELSE Out(NoEvent, current_filename)

\* The lines a subprocess may write in Spec and CancelSpec, in RunSpec, in
\* ProgressSpec, in OrderSpec and in ClassifySpec.
SpecLines == {L_P50, L_Error}
RunLines == {L_Dest, L_P40, L_P100, L_Error, L_Already}
ProgressLines == {L_P5, L_P10, L_P40, L_P60, L_NoPct, L_Ffmpeg}
OrderLines == {L_Dest, L_P10, L_P40}
ClassifyLines ==
    {L_DestPct, L_Bare, L_P40, L_ErrPct, L_WarnPct, L_Error, L_Already, L_Other}
\* The lines of FilenameSpec: those that name a file.
FilenameLines == {L_Dest, L_DestAudio, L_Merger, L_MergerPct}

----------------------------------------------------------------------------
(* The downloads table (models/download.rs).  Each operator is the table   *)
(* after the statement; an UPDATE of an id that has no row changes nothing.*)

Ids == 1..Len(db)

\* Download::insert: the new row, with the columns' defaults.
NewRow(video) ==
    [video |-> video, status |-> Pending, file_path |-> Null, file_size |-> Null,
     progress |-> NoPercent, error |-> Null, started |-> FALSE]

insert(video) == Append(db, NewRow(video))

\* Download::find_by_video_id: the latest row of the video, 0 when there is none.
find_by_video_id(video) ==
    LET rows == {i \in Ids : db[i].video = video}
    IN  IF rows = {} THEN 0 ELSE CHOOSE i \in rows : \A k \in rows : k <= i

\* Download::update_status
update_status(id, status) ==
    IF id \notin Ids THEN db
    ELSE IF status = Downloading
      THEN [db EXCEPT ![id].status = status, ![id].started = TRUE]
    ELSE IF status = Completed
      THEN [db EXCEPT ![id].status = status, ![id].progress = Pct(100, 0)]
    ELSE [db EXCEPT ![id].status = status]

\* Download::update_progress
update_progress(id, percent) ==
    IF id \notin Ids THEN db ELSE [db EXCEPT ![id].progress = percent]

\* update_completed without its file_path column: what the record would be
\* if the statement did not set the path.
update_completed_without_path(id, file_path, file_size) ==
    IF id \notin Ids THEN db
    ELSE [db EXCEPT ![id].status = Completed, ![id].file_size = file_size,
                    ![id].progress = Pct(100, 0)]

\* Download::update_completed
update_completed(id, file_path, file_size) ==
    IF id \notin Ids THEN db
    ELSE [db EXCEPT ![id].status = Completed, ![id].file_path = file_path,
                    ![id].file_size = file_size, ![id].progress = Pct(100, 0)]

\* Download::update_failed
update_failed(id, error_message) ==
    IF id \notin Ids THEN db
    ELSE [db EXCEPT ![id].status = Failed, ![id].error = error_message]

----------------------------------------------------------------------------
(* The ephemeral status table and the handle table. *)

\* DownloadStateInfo (state.rs); speed and eta are display strings that no
\* code reads back and are left out.
StateInfo(status, percent, error) ==
    [status |-> status, percent |-> percent, error |-> error]

\* HashMap::insert and HashMap::remove on download_states.
states_insert(id, info) == (id :> info) @@ states
states_remove(id) == [k \in DOMAIN states \ {id} |-> states[k]]

\* A remove that takes nothing out of active_downloads.
active_remove_nothing(id) == active

\* HashMap::insert and HashMap::remove on active_downloads: the value is the
\* index of the task that holds the receiver of the stored sender.
active_insert(id, run) == (id :> run) @@ active
active_remove(id) == [k \in DOMAIN active \ {id} |-> active[k]]

Runs == 1..Len(tasks)

\* The tokio::sync::RwLock around each table (download.rs:50-51).
\* A guard is held by the worker, by a supervising task or by a cleanup
\* task; `run` is the index of the task, 0 for the worker.
Tables == {"active", "states"}
Holder(who, run) == [who |-> who, run |-> run]
NoHolder == Holder("none", 0)
TheWorker == Holder("worker", 0)
TaskOf(r) == Holder("task", r)
CleanupOf(r) == Holder("cleanup", r)
Unlocked == [table \in Tables |-> NoHolder]

\* `.write().await` has returned a guard of `table` to `holder`: at once,
\* nobody holding one, or in an earlier step of its own.
Enter(table, holder) == locks[table] \in {NoHolder, holder}
\* The guard of `table` is dropped.
Leave(table) == [locks EXCEPT ![table] = NoHolder]

\* A supervising task of `id` is running: it was spawned (line 92) and has
\* not yet finished its last statement (line 106).
Running(id) == \E r \in Runs : tasks[r].job = id /\ tasks[r].pc # "done"

\* The supervising tasks that are running.
RunningTasks == {r \in Runs : tasks[r].pc # "done"}

\* Settings::get_max_concurrent_downloads when the setting has no row or
\* does not parse: 2.  The download subsystem never calls it.
max_concurrent_downloads == 2

\* A oneshot sender dropped without a send closes the channel: the receiver
\* resolves with an error.  `dropped` are the runs whose sender is dropped.
DropSenders(ts, dropped) ==
    [r \in DOMAIN ts |->
        IF r \in dropped /\ ts[r].rx = "open"
        THEN [ts[r] EXCEPT !.rx = "closed"] ELSE ts[r]]

\* The sender stored under `id`, as a set of runs (empty when there is none).
SenderOf(id) == IF id \in DOMAIN active THEN {active[id]} ELSE {}

----------------------------------------------------------------------------
(* Commands, requests, observations. *)

\* DownloadCommand (workers/download.rs:36-44)
StartCmd(id) == [type |-> "Start", id |-> id]
CancelCmd(id) == [type |-> "Cancel", id |-> id]

\* A request in flight: the handler, its path parameter (after
\* Download::insert, the new download id) and the .await it is at.
Request(kind, target, pc) == [kind |-> kind, target |-> target, pc |-> pc]

\* reqs is a bag: two requests may be at the same point of the same handler.
InFlight == BagToSet(reqs)
Arrive(q) == reqs (+) SetToBag({q})
Return(q) == reqs (-) SetToBag({q})
Advance(q, pc) == Return(q) (+) SetToBag({[q EXCEPT !.pc = pc]})

\* One observation.  Of a run ("events"): an event handed to process_download
\* with the percent it persisted for it, a stream error, the child's exit
\* (percent holds the exit code), or a failure to set up the download
\* directory.  Of the worker ("commands"): a consumed
\* Cancel.  Of a handler ("responses"): the answer to a request (text holds the
\* handler, percent the status code, wrote the path parameter).  Of the
\* collaborators of a completed download ("collaborators"): each one's result.
Obs(type, text, percent, wrote) ==
    [type |-> type, text |-> text, percent |-> percent, wrote |-> wrote]
Logged(kind, entry) == IF kind \in cfg.logging THEN Append(log, entry) ELSE log
Response(kind, target, code) == Logged("responses", Obs("Response", kind, code, target))

\* mpsc::Sender::send completes only when the channel has room.
CanSend == Len(queue) < cfg.capacity

----------------------------------------------------------------------------
(* handlers/api.rs: start_download, cancel_download, retry_download.       *)
(* A request that fails one of the handler's checks returns at once; one   *)
(* that passes them waits in reqs at its next .await.                      *)

MayAccept(kind) == nreq < cfg.maxReq /\ kind \in cfg.kinds

\* start_download, lines 191-209: returns early when the video's latest
\* download is Pending, Downloading or Completed.
StartDownloadCheck(video) ==
    /\ MayAccept("start")
    /\ nreq' = nreq + 1
    /\ LET existing == find_by_video_id(video)
       IN  IF existing # 0 /\ db[existing].status # Failed
           THEN reqs' = reqs /\ log' = Response("start", video, 200)
           ELSE reqs' = Arrive(Request("start", video, "insert")) /\ log' = log
    /\ UNCHANGED <<db, queue, active, states, tasks, timers, cfg, locks>>

\* start_download, lines 211-212: Download::insert under a fresh id.
StartDownloadInsert(q) ==
    /\ q \in InFlight /\ q.kind = "start" /\ q.pc = "insert"
    /\ db' = insert(q.target)
    /\ reqs' = Return(q) (+) SetToBag({Request("start", Len(db) + 1, "send")})
    /\ UNCHANGED <<queue, nreq, active, states, tasks, timers, cfg, locks, log>>

\* start_download, lines 222-235: send Start and answer 202.
StartDownloadSend(q) ==
    /\ q \in InFlight /\ q.kind = "start" /\ q.pc = "send"
    /\ CanSend
    /\ queue' = Append(queue, StartCmd(q.target))
    /\ reqs' = Return(q)
    /\ log' = Response("start", q.target, 202)
    /\ UNCHANGED <<db, nreq, active, states, tasks, timers, cfg, locks>>

\* cancel_download, lines 243-249: 404 without a row, 400 unless Downloading.
CancelDownloadCheck(id) ==
    /\ MayAccept("cancel")
    /\ nreq' = nreq + 1
    /\ IF id \notin Ids
       THEN reqs' = reqs /\ log' = Response("cancel", id, 404)
       ELSE IF db[id].status # Downloading
       THEN reqs' = reqs /\ log' = Response("cancel", id, 400)
       ELSE reqs' = Arrive(Request("cancel", id, "send")) /\ log' = log
    /\ UNCHANGED <<db, queue, active, states, tasks, timers, cfg, locks>>

\* cancel_download, lines 251-257: send Cancel.
CancelDownloadSend(q) ==
    /\ q \in InFlight /\ q.kind = "cancel" /\ q.pc = "send"
    /\ CanSend
    /\ queue' = Append(queue, CancelCmd(q.target))
    /\ reqs' = Advance(q, "update_status")
    /\ UNCHANGED <<db, nreq, active, states, tasks, timers, cfg, locks, log>>

\* cancel_download, line 259: update_status(Failed).
CancelDownloadUpdateStatus(q) ==
    /\ q \in InFlight /\ q.kind = "cancel" /\ q.pc = "update_status"
    /\ db' = update_status(q.target, Failed)
    /\ reqs' = Advance(q, "update_failed")
    /\ UNCHANGED <<queue, nreq, active, states, tasks, timers, cfg, locks, log>>

\* cancel_download, lines 260-262: update_failed("Cancelled by user"), 200.
CancelDownloadUpdateFailed(q) ==
    /\ q \in InFlight /\ q.kind = "cancel" /\ q.pc = "update_failed"
    /\ db' = update_failed(q.target, CancelledByUser)
    /\ reqs' = Return(q)
    /\ log' = Response("cancel", q.target, 200)
    /\ UNCHANGED <<queue, nreq, active, states, tasks, timers, cfg, locks>>

\* retry_download without the test of line 274: every download that has a
\* row is retried.
RetryDownloadCheckAnyStatus(id) ==
    /\ MayAccept("retry")
    /\ nreq' = nreq + 1
    /\ IF id \notin Ids
       THEN reqs' = reqs /\ log' = Response("retry", id, 404)
       ELSE reqs' = Arrive(Request("retry", id, "update_status")) /\ log' = log
    /\ UNCHANGED <<db, queue, active, states, tasks, timers, cfg, locks>>

\* retry_download, lines 270-276: 404 without a row, 400 unless Failed.
RetryDownloadCheck(id) ==
    /\ MayAccept("retry")
    /\ nreq' = nreq + 1
    /\ IF id \notin Ids
       THEN reqs' = reqs /\ log' = Response("retry", id, 404)
       ELSE IF db[id].status # Failed
       THEN reqs' = reqs /\ log' = Response("retry", id, 400)
       ELSE reqs' = Arrive(Request("retry", id, "update_status")) /\ log' = log
    /\ UNCHANGED <<db, queue, active, states, tasks, timers, cfg, locks>>

\* retry_download, line 286: update_status(Pending).
RetryDownloadUpdateStatus(q) ==
    /\ q \in InFlight /\ q.kind = "retry" /\ q.pc = "update_status"
    /\ db' = update_status(q.target, Pending)
    /\ reqs' = Advance(q, "send")
    /\ UNCHANGED <<queue, nreq, active, states, tasks, timers, cfg, locks, log>>

\* retry_download, lines 296-307: send Start with the same id, 200.
RetryDownloadSend(q) ==
    /\ q \in InFlight /\ q.kind = "retry" /\ q.pc = "send"
    /\ CanSend
    /\ queue' = Append(queue, StartCmd(q.target))
    /\ reqs' = Return(q)
    /\ log' = Response("retry", q.target, 200)
    /\ UNCHANGED <<db, nreq, active, states, tasks, timers, cfg, locks>>

----------------------------------------------------------------------------
(* DownloadWorker::run (workers/download.rs:70-120), the command consumer. *)

\* The state of a task at tokio::spawn: process_download's locals, the
\* receiver cancel_rx, the stream and its child process.
\*   rx     "open", "sent" (a Cancel was signalled) or "closed" (sender dropped)
\*   stream "none", "created", "reading", "ended"
\*   proc   "none", "alive", "exited"
\*   pipe   the lines the child has written and the stream has not read yet
NewTask(id) ==
    [job |-> id, pc |-> "update_status", rx |-> "open",
     stream |-> "none", proc |-> "none", pipe |-> <<>>, current_filename |-> Null,
     final_filename |-> Null, had_error |-> FALSE, error_message |-> Null,
     max_percent |-> 0]

\* A worker that honours the setting: it takes a Start from the queue only
\* while fewer than max_concurrent_downloads tasks are running.
WorkerStartCapped ==
    /\ Cardinality(RunningTasks) < max_concurrent_downloads
    /\ queue # <<>> /\ Head(queue).type = "Start"
    /\ Enter("active", TheWorker)
    /\ LET id == Head(queue).id
       IN  /\ active' = active_insert(id, Len(tasks) + 1)
           /\ tasks' = Append(DropSenders(tasks, SenderOf(id)), NewTask(id))
    /\ queue' = Tail(queue)
    /\ locks' = Leave("active")
    /\ UNCHANGED <<db, reqs, nreq, states, timers, cfg, log>>

\* Lines 75-108: register the handle (replacing, and so dropping, a sender
\* already stored under the id), then spawn the task.
WorkerStart ==
    /\ queue # <<>> /\ Head(queue).type = "Start"
    /\ Enter("active", TheWorker)
    /\ LET id == Head(queue).id
       IN  /\ active' = active_insert(id, Len(tasks) + 1)
           /\ tasks' = Append(DropSenders(tasks, SenderOf(id)), NewTask(id))
    /\ queue' = Tail(queue)
    /\ locks' = Leave("active")
    /\ UNCHANGED <<db, reqs, nreq, states, timers, cfg, log>>

\* A worker that signals every task whose handle it holds when it consumes
\* a Cancel.
cancel_signal_all(id) ==
    [r \in DOMAIN tasks |->
        IF \E k \in DOMAIN active : active[k] = r /\ tasks[r].rx = "open"
        THEN [tasks[r] EXCEPT !.rx = "sent"] ELSE tasks[r]]

\* Lines 109-115: the tasks after a Cancel{id} is consumed.
cancel_signal(id) ==
    IF id \in DOMAIN active
    THEN [tasks EXCEPT ![active[id]].rx = IF @ = "open" THEN "sent" ELSE @]
    ELSE tasks

\* Where a task stands when a Cancel reaches it: inside its select! loop
\* (then the state of its stream) or at a statement outside the loop.
race_point(t) == IF t.pc \in {"select", "progress_state"} THEN t.stream ELSE t.pc

WorkerCancel ==
    /\ queue # <<>> /\ Head(queue).type = "Cancel"
    /\ Enter("active", TheWorker)
    /\ LET id == Head(queue).id
       IN  /\ tasks' = cancel_signal(id)
           /\ active' = active_remove(id)
           /\ log' = Logged("commands",
                  IF id \in DOMAIN active
                  THEN Obs("CancelSignalled", race_point(tasks[active[id]]), NoPercent, id)
                  ELSE Obs("CancelIgnored",
                           IF Running(id) THEN "running" ELSE "not running",
                           NoPercent, id))
    /\ queue' = Tail(queue)
    /\ locks' = Leave("active")
    /\ UNCHANGED <<db, reqs, nreq, states, timers, cfg>>

----------------------------------------------------------------------------
(* process_download (workers/download.rs:124-332) and the stream of        *)
(* YtDlp::download_with_progress (yt-dlp/src/client.rs:211-286).           *)

At(r, pc) == r \in Runs /\ tasks[r].pc = pc

\* Lines 136-140, the write succeeds.
TaskSetDownloading(r) ==
    /\ At(r, "update_status")
    /\ db' = update_status(tasks[r].job, Downloading)
    /\ tasks' = [tasks EXCEPT ![r].pc = "insert_started"]
    /\ UNCHANGED <<queue, reqs, nreq, active, states, timers, cfg, locks, log>>

\* A task that goes on after the write of lines 136-140 has failed.
TaskSetDownloadingFailsIgnored(r) ==
    /\ At(r, "update_status")
    /\ tasks' = [tasks EXCEPT ![r].pc = "insert_started"]
    /\ UNCHANGED <<db, queue, reqs, nreq, active, states, timers, cfg, locks, log>>

\* Lines 136-140, the write fails: process_download returns.
TaskSetDownloadingFails(r) ==
    /\ At(r, "update_status")
    /\ tasks' = [tasks EXCEPT ![r].pc = "remove_handle"]
    /\ UNCHANGED <<db, queue, reqs, nreq, active, states, timers, cfg, locks, log>>

\* Lines 142-151.  From here to the first poll of the stream the task
\* touches no shared state: stream = "created" stands for every point of
\* lines 153-199 before the child is spawned.
TaskInsertStarted(r) ==
    /\ At(r, "insert_started") /\ Enter("states", TaskOf(r))
    /\ states' = states_insert(tasks[r].job, StateInfo("started", 0, Null))
    /\ tasks' = [tasks EXCEPT ![r].pc = "select", ![r].stream = "created"]
    /\ locks' = Leave("states")
    /\ UNCHANGED <<db, queue, reqs, nreq, active, timers, cfg, log>>

\* The return of lines 155-160 and 166-175 without the update_failed.
TaskConfigFailsUnrecorded(r, message) ==
    /\ At(r, "select") /\ tasks[r].stream = "created"
    /\ tasks' = [tasks EXCEPT ![r].pc = "remove_handle", ![r].stream = "none"]
    /\ log' = Logged("events", Obs("ConfigError", message, NoPercent, NoPercent))
    /\ UNCHANGED <<db, queue, reqs, nreq, active, states, timers, cfg, locks>>

\* Lines 155-160 and 166-175: the download path cannot be read or the
\* directory cannot be created; update_failed and return.
TaskConfigFails(r, message) ==
    /\ At(r, "select") /\ tasks[r].stream = "created"
    /\ db' = update_failed(tasks[r].job, message)
    /\ tasks' = [tasks EXCEPT ![r].pc = "remove_handle", ![r].stream = "none"]
    /\ log' = Logged("events", Obs("ConfigError", message, NoPercent, NoPercent))
    /\ UNCHANGED <<queue, reqs, nreq, active, states, timers, cfg, locks>>

\* `break`: the loop's locals max_percent and the stream's position are not
\* read again (the stream itself lives until process_download returns).
leave_loop(t) ==
    [t EXCEPT !.pc = "persist", !.stream = "ended", !.max_percent = 0,
              !.current_filename = Null, !.pipe = <<>>]

\* select! polls `&mut cancel_rx`: ready once a value was sent or the sender
\* was dropped (the branch's pattern `_` accepts both).
cancel_ready(rx) == rx \in {"sent", "closed"}

\* Lines 193-198: the cancellation branch of select!.
TaskCancelled(r) ==
    /\ At(r, "select")
    /\ cancel_ready(tasks[r].rx)
    /\ tasks' = [tasks EXCEPT ![r] = leave_loop(
                    [@ EXCEPT !.had_error = TRUE, !.error_message = CancelledByUser])]
    /\ UNCHANGED <<db, queue, reqs, nreq, active, states, timers, cfg, locks, log>>

\* The percent of the event itself, without the clamp of lines 208-211.
raw_percent(max_percent, percent) == percent

\* Lines 208-211: the percent displayed and persisted for a Progress event.
display_percent(max_percent, percent) ==
    IF percent > max_percent THEN percent ELSE max_percent

\* Line 205: progress.percent.unwrap_or(0.0)
unwrap_percent(percent) == IF percent = NoPercent THEN 0 ELSE percent

\* process_download's locals after an event if the Error arm (lines 243-247)
\* did not set had_error.
handle_event_ignoring_error(t, ev) ==
    IF ev.type = "Progress"
      THEN [t EXCEPT !.max_percent =
                        IF unwrap_percent(ev.percent) > @
                        THEN unwrap_percent(ev.percent) ELSE @]
    ELSE IF ev.type \in {"DownloadStarted", "Finished"}
      THEN [t EXCEPT !.final_filename = ev.text]
    ELSE t

\* process_download's locals if a line that yields no event were taken for
\* an error of the tool.
handle_event_failing_on_unknown(t, ev) ==
    IF ev.type = "Progress"
      THEN [t EXCEPT !.max_percent = display_percent(@, unwrap_percent(ev.percent))]
    ELSE IF ev.type \in {"DownloadStarted", "Finished"}
      THEN [t EXCEPT !.final_filename = ev.text]
    ELSE IF ev.type \in {"Error", "None"}
      THEN [t EXCEPT !.had_error = TRUE, !.error_message = ev.text]
    ELSE t

\* Lines 203-249: process_download's locals after an event.
handle_event(t, ev) ==
    IF ev.type = "Progress"
      THEN [t EXCEPT !.max_percent = display_percent(@, unwrap_percent(ev.percent))]
    ELSE IF ev.type \in {"DownloadStarted", "Finished"}
      THEN [t EXCEPT !.final_filename = ev.text]
    ELSE IF ev.type = "Error"
      THEN [t EXCEPT !.had_error = TRUE, !.error_message = ev.text]
    ELSE t

\* Lines 153-184 succeed; then the stream's first item, Extracting
\* (client.rs:227), which process_download ignores, and on the next poll the
\* child is spawned (client.rs:248-263).
StreamSpawn(r) ==
    /\ At(r, "select") /\ tasks[r].stream = "created"
    /\ tasks' = [tasks EXCEPT ![r] =
                    [handle_event(@, Event("Extracting", Null, NoPercent))
                        EXCEPT !.stream = "reading", !.proc = "alive"]]
    /\ UNCHANGED <<db, queue, reqs, nreq, active, states, timers, cfg, locks, log>>

\* Lines 251-256: the stream yields Err and process_download leaves the loop.
stream_error(t, message) ==
    leave_loop([t EXCEPT !.had_error = TRUE, !.error_message = message])

\* client.rs:252: cmd.spawn()? fails.
StreamSpawnFails(r) ==
    /\ At(r, "select") /\ tasks[r].stream = "created"
    /\ tasks' = [tasks EXCEPT ![r] = stream_error(@, ExecutionFailed)]
    /\ log' = Logged("events", Obs("StreamError", ExecutionFailed, NoPercent, NoPercent))
    /\ UNCHANGED <<db, queue, reqs, nreq, active, states, timers, cfg, locks>>

\* client.rs:267 and 274: reading the output, or waiting for the child, fails.
StreamIoFails(r) ==
    /\ At(r, "select") /\ tasks[r].stream = "reading"
    /\ tasks' = [tasks EXCEPT ![r] = stream_error(@, ExecutionFailed)]
    /\ log' = Logged("events", Obs("StreamError", ExecutionFailed, NoPercent, NoPercent))
    /\ UNCHANGED <<db, queue, reqs, nreq, active, states, timers, cfg, locks>>

\* client.rs:267-272 with download.rs:199-249: the stream reads `line`,
\* leaving `rest` in the pipe, and classifies it, and process_download
\* handles the event, if any, up to its first store write.
ReadLine(r, line, rest) ==
    /\ At(r, "select") /\ tasks[r].stream = "reading"
    /\ LET parsed == parse_progress_line(line, tasks[r].current_filename)
           ev == parsed.event
           t == [handle_event(tasks[r], ev) EXCEPT
                    !.current_filename = parsed.cur, !.pipe = rest]
       IN  /\ tasks' = [tasks EXCEPT ![r] =
                  IF ev.type = "Progress" THEN [t EXCEPT !.pc = "progress_state"]
                  ELSE t]
           /\ db' = IF ev.type = "Progress"
                    THEN update_progress(t.job, t.max_percent) ELSE db
           /\ ev.type = "PostProcessing" => Enter("states", TaskOf(r))
           /\ states' = IF ev.type = "PostProcessing"
                        THEN states_insert(t.job, StateInfo("processing", Pct(100, 0), ev.text))
                        ELSE states
           /\ locks' = IF ev.type = "PostProcessing" THEN Leave("states") ELSE locks
           /\ log' = IF ev.type = "None" THEN log
                     ELSE Logged("events",
                                 Obs(ev.type, ev.text, ev.percent,
                                     IF ev.type = "Progress" /\ t.job \in Ids
                                     THEN db'[t.job].progress ELSE NoPercent))
    /\ UNCHANGED <<queue, reqs, nreq, active, timers, cfg>>

\* The child writes `line` and the stream, which was waiting for it, reads
\* it at once.
StreamLine(r, line) ==
    /\ "events" \in cfg.logging => Len(log) < cfg.maxLines
    /\ line \in cfg.lines
    /\ r \in Runs /\ tasks[r].pipe = <<>>
    /\ ReadLine(r, line, <<>>)

\* The child writes `line` while nobody waits for it: the line stays in the
\* pipe.  (Observed, and so bounded, where "lines" are logged.)
ChildWrites(r, line) ==
    /\ r \in Runs /\ tasks[r].proc = "alive" /\ tasks[r].stream = "reading"
    /\ "lines" \in cfg.logging /\ line \in cfg.lines
    /\ Len(SelectSeq(log, LAMBDA e : e.type = "Line")) < cfg.maxLines
    /\ tasks' = [tasks EXCEPT ![r].pipe = Append(@, line)]
    /\ log' = Logged("lines", Obs("Line", line, NoPercent, NoPercent))
    /\ UNCHANGED <<db, queue, reqs, nreq, active, states, timers, cfg, locks>>

\* A stream that takes the newest line of the pipe instead of the oldest.
StreamReadNewest(r) ==
    /\ r \in Runs /\ tasks[r].pipe # <<>>
    /\ LET pipe == tasks[r].pipe
       IN  ReadLine(r, pipe[Len(pipe)], SubSeq(pipe, 1, Len(pipe) - 1))

\* client.rs:267: reader.next_line() returns the oldest line of the pipe.
StreamRead(r) ==
    /\ r \in Runs /\ tasks[r].pipe # <<>>
    /\ ReadLine(r, Head(tasks[r].pipe), Tail(tasks[r].pipe))

\* A task that keeps the guard of line 215 beyond the arm of the Progress
\* event, into the next poll of select!.
TaskProgressStateKeepingGuard(r) ==
    /\ At(r, "progress_state") /\ Enter("states", TaskOf(r))
    /\ states' = states_insert(tasks[r].job,
                               StateInfo("progress", tasks[r].max_percent, Null))
    /\ tasks' = [tasks EXCEPT ![r].pc = "select"]
    /\ locks' = [locks EXCEPT !["states"] = TaskOf(r)]
    /\ UNCHANGED <<db, queue, reqs, nreq, active, timers, cfg, log>>

\* Lines 215-222: the ephemeral entry of a Progress event.
TaskProgressState(r) ==
    /\ At(r, "progress_state") /\ Enter("states", TaskOf(r))
    /\ states' = states_insert(tasks[r].job,
                               StateInfo("progress", tasks[r].max_percent, Null))
    /\ tasks' = [tasks EXCEPT ![r].pc = "select"]
    /\ locks' = Leave("states")
    /\ UNCHANGED <<db, queue, reqs, nreq, active, timers, cfg, log>>

\* The stream's last event if it did not look at the child's exit code.
exit_event_ignoring_code(code, current_filename) ==
    Event("Finished",
          IF current_filename = Null THEN OutputTemplate ELSE current_filename,
          NoPercent)

\* A stream that ends without an event when the child has exited with code 0.
exit_event_without_finished(code, current_filename) ==
    IF code # 0 THEN Event("Error", ExitCodeError, NoPercent) ELSE NoEvent

\* client.rs:274-284: the stream's last event, from the child's exit code.
exit_event(code, current_filename) ==
    IF code # 0 THEN Event("Error", ExitCodeError, NoPercent)
    ELSE Event("Finished",
               IF current_filename = Null THEN OutputTemplate ELSE current_filename,
               NoPercent)

\* The child closes its output and exits with `code`; the stream has read
\* every line of the pipe.
StreamExit(r, code) ==
    /\ At(r, "select") /\ tasks[r].stream = "reading" /\ tasks[r].pipe = <<>>
    /\ LET ev == exit_event(code, tasks[r].current_filename)
       IN  /\ tasks' = [tasks EXCEPT ![r] =
                  [handle_event(@, ev) EXCEPT !.stream = "ended", !.proc = "exited"]]
           /\ log' = IF "events" \in cfg.logging
                     THEN log \o <<Obs("Exit", Null, code, NoPercent),
                                   Obs(ev.type, ev.text, NoPercent, NoPercent)>>
                     ELSE log
    /\ UNCHANGED <<db, queue, reqs, nreq, active, states, timers, cfg, locks>>

\* Line 257: the stream has ended.
StreamEnd(r) ==
    /\ At(r, "select") /\ tasks[r].stream = "ended"
    /\ tasks' = [tasks EXCEPT ![r] = leave_loop(@)]
    /\ UNCHANGED <<db, queue, reqs, nreq, active, states, timers, cfg, locks, log>>

\* Lines 263, 277, 317: the branch process_download takes after the loop.
outcome(t) ==
    IF t.had_error THEN "failed"
    ELSE IF t.final_filename # Null THEN "completed"
    ELSE "no_file"

\* Line 264: error_message.unwrap_or_else(|| "Unknown error")
failure_message(t) ==
    IF t.error_message = Null THEN "Unknown error" ELSE t.error_message

\* The terminal store write fails: `let _ =` drops the error and the task
\* goes on.
TaskPersistFails(r, file_size) ==
    /\ At(r, "persist")
    /\ tasks' = [tasks EXCEPT ![r].pc = "label"]
    /\ outcome(tasks[r]) # "completed" => file_size = Null
    /\ UNCHANGED <<db, queue, reqs, nreq, active, states, timers, cfg, locks, log>>

\* Lines 264-265, 279-280 and 318: the terminal store write.  file_size is
\* what std::fs::metadata finds at the path: a size, or nothing.
TaskPersist(r, file_size) ==
    /\ At(r, "persist")
    /\ LET t == tasks[r]
       IN  /\ db' = CASE outcome(t) = "failed" ->
                           update_failed(t.job, failure_message(t))
                      [] outcome(t) = "completed" ->
                           update_completed(t.job, t.final_filename, file_size)
                      [] OTHER -> update_failed(t.job, NoFileFound)
           /\ tasks' = [tasks EXCEPT ![r].pc = "label"]
           /\ outcome(t) # "completed" => file_size = Null
    /\ UNCHANGED <<queue, reqs, nreq, active, states, timers, cfg, locks, log>>

\* The terminal ephemeral entry (lines 266-275, 306-315, 320-329).
terminal_info(t) ==
    CASE outcome(t) = "failed" -> StateInfo("failed", 0, failure_message(t))
      [] outcome(t) = "completed" -> StateInfo("completed", Pct(100, 0), Null)
      [] OTHER -> StateInfo("failed", 0, "No file found")

\* What dropping the stream does to the child it owns: the Command is built
\* without kill_on_drop, so the child is left as it is.
drop_child(proc) == proc

\* The collaborators of lines 282-304, which run after a completed download
\* only: save_thumb_alongside (None on failure), nfo::probe_media (None on
\* failure) and nfo::write_nfo (Err on failure, which is logged).  Each
\* result is "ok" or "failed"; none is read by what follows.
Collaborators == <<"Thumbnail", "Probe", "Nfo">>
CollaboratorResults(t) ==
    IF outcome(t) = "completed"
    THEN [1..Len(Collaborators) -> {"ok", "failed"}]
    ELSE {<<>>}

\* The observations of the collaborators' results.
collaborator_log(results) ==
    [k \in 1..Len(results) |-> Obs(Collaborators[k], results[k], NoPercent, NoPercent)]

\* A task for which the failure of a collaborator is fatal: it returns
\* without the terminal entry and without scheduling the cleanup.
TaskLabelFatal(r) ==
    /\ At(r, "label") /\ Enter("states", TaskOf(r))
    /\ \E results \in CollaboratorResults(tasks[r]) :
          /\ log' = IF "collaborators" \in cfg.logging
                    THEN log \o collaborator_log(results) ELSE log
          /\ IF \E k \in 1..Len(results) : results[k] = "failed"
             THEN UNCHANGED <<states, timers>>
             ELSE /\ states' = states_insert(tasks[r].job, terminal_info(tasks[r]))
                  /\ timers' = timers \cup {r}
    /\ tasks' = [tasks EXCEPT ![r].pc = "remove_handle",
                              ![r].proc = drop_child(@),
                              ![r].final_filename = Null]
    /\ locks' = Leave("states")
    /\ UNCHANGED <<db, queue, reqs, nreq, active, cfg>>

\* After a completed download the collaborators (lines 282-304: thumbnail,
\* probe, NFO write), whose failures are logged and change nothing; then the
\* terminal entry, schedule_state_cleanup (lines 334-343), and the return
\* of process_download, which drops the stream and the receiver.
TaskLabel(r) ==
    /\ At(r, "label") /\ Enter("states", TaskOf(r))
    /\ \E results \in CollaboratorResults(tasks[r]) :
          log' = IF "collaborators" \in cfg.logging
                 THEN log \o collaborator_log(results) ELSE log
    /\ states' = states_insert(tasks[r].job, terminal_info(tasks[r]))
    /\ timers' = timers \cup {r}
    /\ tasks' = [tasks EXCEPT ![r].pc = "remove_handle",
                              ![r].proc = drop_child(@),
                              ![r].final_filename = Null]
    /\ locks' = Leave("states")
    /\ UNCHANGED <<db, queue, reqs, nreq, active, cfg>>

\* A task that has ended: what is left of it is the child it spawned and
\* how process_download ended (its last had_error and error_message).
ended(t) ==
    [NewTask(t.job) EXCEPT !.pc = "done", !.rx = "closed", !.proc = t.proc,
                           !.had_error = t.had_error,
                           !.error_message = t.error_message]

\* The end of a task that leaves the handle of its id in the table.
TaskEndsKeepingHandle(r) ==
    /\ At(r, "remove_handle")
    /\ tasks' = [tasks EXCEPT ![r] = ended(@)]
    /\ UNCHANGED <<db, queue, reqs, nreq, active, states, timers, cfg, locks, log>>

\* Lines 105-106: the spawned task removes the handle stored under its id.
TaskRemoveHandle(r) ==
    /\ At(r, "remove_handle") /\ Enter("active", TaskOf(r))
    /\ active' = active_remove(tasks[r].job)
    /\ tasks' = DropSenders([tasks EXCEPT ![r] = ended(@)], SenderOf(tasks[r].job))
    /\ locks' = Leave("active")
    /\ UNCHANGED <<db, queue, reqs, nreq, states, timers, cfg, log>>

\* Lines 338-342: a cleanup task wakes up and removes the entry of its id.
CleanupFires(r) ==
    /\ r \in timers /\ Enter("states", CleanupOf(r))
    /\ states' = states_remove(tasks[r].job)
    /\ timers' = timers \ {r}
    /\ locks' = Leave("states")
    /\ UNCHANGED <<db, queue, reqs, nreq, active, tasks, cfg, log>>

\* A child no task reads from any more exits by itself.
ChildExits(r) ==
    /\ r \in Runs /\ tasks[r].proc = "alive"
    /\ tasks[r].pc \in {"remove_handle", "done"}
    /\ tasks' = [tasks EXCEPT ![r].proc = "exited"]
    /\ UNCHANGED <<db, queue, reqs, nreq, active, states, timers, cfg, locks, log>>

----------------------------------------------------------------------------
(* The numeric token parsers (yt-dlp/src/client.rs:466-521).  A token is   *)
(* the sequence of its characters; Option::Some(v) is <<v>> and            *)
(* Option::None is <<>>; an f64 is the decimal num / 10^scale.             *)

Digit == {"0", "1", "2", "3", "4", "5", "6", "7", "8", "9"}
DigitValue(c) ==
    CASE c = "0" -> 0 [] c = "1" -> 1 [] c = "2" -> 2 [] c = "3" -> 3 [] c = "4" -> 4
      [] c = "5" -> 5 [] c = "6" -> 6 [] c = "7" -> 7 [] c = "8" -> 8 [] c = "9" -> 9

F64(num, scale) == [num |-> num, scale |-> scale]

RECURSIVE Pow10(_)
Pow10(n) == IF n = 0 THEN 1 ELSE 10 * Pow10(n - 1)

\* str::ends_with, str::trim_end_matches, str::trim and str::split.
ends_with(s, suffix) ==
    Len(s) >= Len(suffix) /\ SubSeq(s, Len(s) - Len(suffix) + 1, Len(s)) = suffix

RECURSIVE trim_end_matches(_, _)
trim_end_matches(s, suffix) ==
    IF suffix # <<>> /\ ends_with(s, suffix)
    THEN trim_end_matches(SubSeq(s, 1, Len(s) - Len(suffix)), suffix)
    ELSE s

RECURSIVE trim(_)
trim(s) ==
    IF s # <<>> /\ Head(s) = " " THEN trim(Tail(s))
    ELSE IF s # <<>> /\ s[Len(s)] = " " THEN trim(SubSeq(s, 1, Len(s) - 1))
    ELSE s

\* str::split_once: the text before and the text after the first separator.
split_once(s, sep) ==
    LET at == {i \in 1..Len(s) : s[i] = sep}
    IN  IF at = {} THEN <<s>>
        ELSE LET i == CHOOSE j \in at : \A k \in at : j <= k
             IN  <<SubSeq(s, 1, i - 1), SubSeq(s, i + 1, Len(s))>>

RECURSIVE split(_, _)
split(s, sep) ==
    LET at == {i \in 1..Len(s) : s[i] = sep}
    IN  IF at = {} THEN <<s>>
        ELSE LET i == CHOOSE j \in at : \A k \in at : j <= k
             IN  <<SubSeq(s, 1, i - 1)>> \o split(SubSeq(s, i + 1, Len(s)), sep)

\* The number a sequence of digits writes.
RECURSIVE Number(_)
Number(digits) ==
    IF digits = <<>> THEN 0
    ELSE 10 * Number(SubSeq(digits, 1, Len(digits) - 1)) + DigitValue(digits[Len(digits)])

\* str::parse::<f64> on a text with an optional sign, digits and at most one
\* point (the texts of the model have no exponent and no "inf" or "nan").
parse_f64(s) ==
    LET signed == s # <<>> /\ Head(s) \in {"+", "-"}
        body == IF signed THEN Tail(s) ELSE s
        points == {i \in 1..Len(body) : body[i] = "."}
        digits == SelectSeq(body, LAMBDA c : c \in Digit)
        sign == IF signed /\ Head(s) = "-" THEN -1 ELSE 1
    IN  IF /\ \A i \in 1..Len(body) : body[i] \in Digit \cup {"."}
           /\ Cardinality(points) <= 1 /\ digits # <<>>
        THEN <<F64(sign * Number(digits),
                   IF points = {} THEN 0 ELSE Len(body) - (CHOOSE i \in points : TRUE))>>
        ELSE <<>>

\* Lines 472-480: the suffixes in the order they are tried.
multipliers ==
    <<[suffix |-> <<"G", "i", "B">>, mult |-> 1024 * 1024 * 1024],
      [suffix |-> <<"M", "i", "B">>, mult |-> 1024 * 1024],
      [suffix |-> <<"K", "i", "B">>, mult |-> 1024],
      [suffix |-> <<"G", "B">>, mult |-> 1000 * 1000 * 1000],
      [suffix |-> <<"M", "B">>, mult |-> 1000 * 1000],
      [suffix |-> <<"K", "B">>, mult |-> 1000],
      [suffix |-> <<"B">>, mult |-> 1]>>

\* A cast of the mantissa to an integer before the multiplication.
size_of_whole_mantissa(num, mult) ==
    IF num.num < 0 THEN 0 ELSE (num.num \div Pow10(num.scale)) * mult

\* Line 486, `(num * mult as f64) as u64`: the integer part of the product,
\* and 0 for a negative one (the cast saturates).  The product is computed
\* from the integer and the fractional part of num, which are exact in f64
\* for the texts of the model.
size_of(num, mult) ==
    IF num.num < 0 THEN 0
    ELSE LET q == Pow10(num.scale)
             whole == num.num \div q
             frac == num.num % q
         IN  whole * mult + frac * (mult \div q) + (frac * (mult % q)) \div q

\* Lines 482-489: the loop over the suffixes, from the k-th on.
RECURSIVE size_from(_, _)
size_from(s, k) ==
    IF k > Len(multipliers) THEN <<>>
    ELSE LET suffix == multipliers[k].suffix
             num == parse_f64(trim(trim_end_matches(s, suffix)))
         IN  IF ends_with(s, suffix) /\ num # <<>>
             THEN <<size_of(num[1], multipliers[k].mult)>>
             ELSE size_from(s, k + 1)

parse_size(token) ==
    LET s == trim(token)
    IN  IF s \in {<<"N", "/", "A">>, <<"~">>, <<>>} THEN <<>> ELSE size_from(s, 1)

parse_speed(token) ==
    LET size == parse_size(trim_end_matches(trim(token), <<"/", "s">>))
    IN  IF size = <<>> THEN <<>> ELSE <<F64(size[1], 0)>>

\* a * k and a + b on f64, exact for the texts of the model.
times(a, k) == F64(a.num * k, a.scale)
plus(a, b) ==
    LET scale == IF a.scale > b.scale THEN a.scale ELSE b.scale
    IN  F64(a.num * Pow10(scale - a.scale) + b.num * Pow10(scale - b.scale), scale)

parse_eta(token) ==
    LET s == trim(token)
        parts == split(s, ":")
        part(k) == parse_f64(parts[k])
    IN  IF s \in {<<"N", "/", "A">>, <<"U", "n", "k", "n", "o", "w", "n">>, <<>>} THEN <<>>
        ELSE IF Len(parts) = 1 THEN part(1)
        ELSE IF Len(parts) = 2
          THEN IF part(1) = <<>> \/ part(2) = <<>> THEN <<>>
               ELSE <<plus(times(part(1)[1], 60), part(2)[1])>>
        ELSE IF Len(parts) = 3
          THEN IF part(1) = <<>> \/ part(2) = <<>> \/ part(3) = <<>> THEN <<>>
               ELSE <<plus(plus(times(part(1)[1], 3600), times(part(2)[1], 60)),
                           part(3)[1])>>
        ELSE <<>>

\* The tokens of the model: a mantissa and a unit, with "/s" after them or
\* not, or parts joined by ':', or a text that stands for no value.  Each
\* is kept with the numbers its text writes (a ratio num/den, or nothing
\* where the text writes no number or no unit the parser knows).
Ratio(num, den) == [num |-> num, den |-> den]
Text(text, value) == [text |-> text, value |-> value]

Mantissas ==
    {Text(<<"1", "0", "0">>, <<Ratio(100, 1)>>), Text(<<"1">>, <<Ratio(1, 1)>>),
     Text(<<"5", "0", "0">>, <<Ratio(500, 1)>>),
     Text(<<"1", "0", "0", "0">>, <<Ratio(1000, 1)>>),
     Text(<<"1", "0", ".", "0", "0">>, <<Ratio(10, 1)>>),
     Text(<<"1", ".", "5">>, <<Ratio(3, 2)>>), Text(<<"0", ".", "5">>, <<Ratio(1, 2)>>),
     Text(<<"-", "1">>, <<Ratio(-1, 1)>>),
     Text(<<"a", "b", "c">>, <<>>), Text(<<>>, <<>>)}

Units ==
    {Text(<<"G", "i", "B">>, <<1024 * 1024 * 1024>>),
     Text(<<"M", "i", "B">>, <<1024 * 1024>>), Text(<<"K", "i", "B">>, <<1024>>),
     Text(<<"G", "B">>, <<1000 * 1000 * 1000>>),
     Text(<<"M", "B">>, <<1000 * 1000>>), Text(<<"K", "B">>, <<1000>>),
     Text(<<"B">>, <<1>>), Text(<<"T", "i", "B">>, <<>>), Text(<<>>, <<>>)}

Parts ==
    {Text(<<"1">>, <<Ratio(1, 1)>>), Text(<<"3", "0">>, <<Ratio(30, 1)>>),
     Text(<<"0", "0">>, <<Ratio(0, 1)>>), Text(<<"1", ".", "5">>, <<Ratio(3, 2)>>),
     Text(<<"x">>, <<>>), Text(<<>>, <<>>)}

NoValues == {<<"N", "/", "A">>, <<"~">>, <<"U", "n", "k", "n", "o", "w", "n">>}

\* The size the pair writes is one a u64 of the model can hold.
Fits(mantissa, unit) ==
    mantissa.value # <<>> /\ unit.value # <<>> /\ mantissa.value[1].num > 0 =>
       IF mantissa.value[1].den = 1
       THEN mantissa.value[1].num <= 2147483647 \div unit.value[1]
       ELSE mantissa.value[1].num \div mantissa.value[1].den
               < 2147483647 \div unit.value[1]

RECURSIVE Join(_)
Join(parts) ==
    IF Len(parts) = 1 THEN parts[1].text
    ELSE parts[1].text \o <<":">> \o Join(Tail(parts))

Token(kind, text, mantissa, mult, parts) ==
    [kind |-> kind, text |-> text, mantissa |-> mantissa, mult |-> mult,
     parts |-> parts]

Tokens ==
    {Token("size", m.text \o u.text, m.value, u.value, <<>>) :
        <<m, u>> \in {pair \in Mantissas \X Units : Fits(pair[1], pair[2])}}
    \cup {Token("speed", m.text \o u.text \o <<"/", "s">>, m.value, u.value, <<>>) :
        <<m, u>> \in {pair \in Mantissas \X Units : Fits(pair[1], pair[2])}}
    \cup {Token("eta", Join(parts), <<>>, <<>>, [k \in DOMAIN parts |-> parts[k].value]) :
        parts \in UNION {[1..n -> Parts] : n \in 1..MaxParts}}
    \cup {Token("none", text, <<>>, <<>>, <<>>) : text \in NoValues}

\* One call of a parser on the text of a token of the behaviour, with its
\* result observed.
Parsed(parser, token, result) ==
    /\ token \in cfg.lines /\ "parsers" \in cfg.logging /\ Len(log) < cfg.maxLines
    /\ log' = Logged("parsers", Obs(parser, token, NoPercent, result))
    /\ UNCHANGED <<db, queue, reqs, nreq, active, states, tasks, timers, cfg, locks>>

ParseSize(token) == Parsed("parse_size", token, parse_size(token.text))
ParseSpeed(token) == Parsed("parse_speed", token, parse_speed(token.text))
ParseEta(token) == Parsed("parse_eta", token, parse_eta(token.text))

----------------------------------------------------------------------------
(* CommandBuilder::build_with_env (yt-dlp/src/command.rs:220-236): the     *)
(* environment overlay of the subprocess, a function from the names of the *)
(* variables set with Command::env to their values.                        *)

EnvKeys == {"PATH_PREPEND", "PATH", "HTTP_PROXY"}
EnvValues == {"/opt/bin", "/usr/local/bin", "proxy:3128"}

\* The configured variables and the PATH of the process (Null: not set).
EnvInputs ==
    {[env_vars |-> env_vars, current_path |-> current_path] :
        env_vars \in UNION {[keys -> EnvValues] : keys \in SUBSET EnvKeys},
        current_path \in {Null, "/usr/bin"}}

\* Lines 224-227, then the loop of lines 229-233, whose Command::env calls
\* replace a value set before them; the keys of a HashMap are distinct, so
\* the order of the loop does not show.
build_with_env(env_vars, current_path) ==
    LET path == IF current_path = Null THEN "" ELSE current_path
        prepended ==
            IF "PATH_PREPEND" \in DOMAIN env_vars
            THEN "PATH" :> (env_vars["PATH_PREPEND"] \o ":" \o path)
            ELSE <<>>
        passed == [key \in DOMAIN env_vars \ {"PATH_PREPEND"} |-> env_vars[key]]
    IN  passed @@ prepended

\* One call of build_with_env on the input of the behaviour, with the
\* overlay observed.
BuildWithEnv(input) ==
    /\ input \in cfg.lines /\ "builds" \in cfg.logging /\ Len(log) < cfg.maxLines
    /\ log' = Logged("builds",
                     Obs("build_with_env", input, NoPercent,
                         build_with_env(input.env_vars, input.current_path)))
    /\ UNCHANGED <<db, queue, reqs, nreq, active, states, tasks, timers, cfg, locks>>

----------------------------------------------------------------------------
(* CommandBuilder (yt-dlp/src/command.rs:7-212): self is the builder's     *)
(* args vector; an Option is <<v>> or <<>>.                                *)

arg_first(self, a) == <<a>> \o self

arg(self, a) == Append(self, a)
args(self, more) == self \o more
url(self, u) == arg(self, u)
output(self, path) == arg(arg(self, "-o"), path)
format(self, f) == arg(arg(self, "-f"), f)
extract_audio(self) == arg(self, "-x")
audio_format(self, f) == arg(arg(self, "--audio-format"), f)
audio_quality(self, quality) == arg(arg(self, "--audio-quality"), quality)
embed_thumbnail(self) == arg(self, "--embed-thumbnail")
embed_metadata(self) == arg(self, "--embed-metadata")
embed_subtitles(self) == arg(self, "--embed-subs")
write_subtitles(self) == arg(self, "--write-subs")
write_thumbnail(self) == arg(self, "--write-thumbnail")

\* [String]::join.
RECURSIVE join(_, _)
join(strings, sep) ==
    IF strings = <<>> THEN ""
    ELSE IF Len(strings) = 1 THEN strings[1]
    ELSE strings[1] \o sep \o join(Tail(strings), sep)

subtitles_langs(self, langs) ==
    IF langs = <<>> THEN self ELSE arg(arg(self, "--sub-langs"), join(langs, ","))
cookies_file(self, path) == arg(arg(self, "--cookies"), path)
cookies_file_opt(self, path) == IF path = <<>> THEN self ELSE cookies_file(self, path[1])
rate_limit(self, limit) == arg(arg(self, "-r"), limit)
concurrent_fragments(self, count) == arg(arg(self, "--concurrent-fragments"), ToString(count))
merge_output_format(self, f) == arg(arg(self, "--merge-output-format"), f)
progress_template(self, template) == arg(arg(self, "--progress-template"), template)
newline_progress(self) == arg(self, "--newline")
ffmpeg_location(self, path) == arg(arg(self, "--ffmpeg-location"), path)

\* OutputFormat::as_arg and Container::as_str (types/options.rs:15-24, 42-54):
\* a value of either enum is its variant and, for Custom, its string.
Variant(name) == [variant |-> name, value |-> Null]
Custom(value) == [variant |-> "Custom", value |-> value]

as_arg(f) ==
    CASE f.variant = "Default" -> <<>>
      [] f.variant = "Best" -> <<"best">>
      [] f.variant = "Worst" -> <<"worst">>
      [] f.variant = "BestVideo" -> <<"bestvideo">>
      [] f.variant = "BestAudio" -> <<"bestaudio">>
      [] f.variant = "Custom" -> <<f.value>>
as_str(container) ==
    CASE container.variant = "Default" -> <<>>
      [] container.variant = "Mp4" -> <<"mp4">>
      [] container.variant = "Mkv" -> <<"mkv">>
      [] container.variant = "Webm" -> <<"webm">>
      [] container.variant = "Mp3" -> <<"mp3">>
      [] container.variant = "M4a" -> <<"m4a">>
      [] container.variant = "Opus" -> <<"opus">>
      [] container.variant = "Flac" -> <<"flac">>
      [] container.variant = "Custom" -> <<container.value>>

\* DownloadOptions::default (types/options.rs:57-75).
DefaultOptions ==
    [format |-> Variant("Default"), container |-> Variant("Default"), output_template |-> <<>>,
     embed_thumbnail |-> FALSE, embed_metadata |-> FALSE, embed_subtitles |-> FALSE,
     extract_audio |-> FALSE, audio_format |-> <<>>, audio_quality |-> <<>>,
     subtitles_langs |-> <<>>, write_subtitles |-> FALSE, write_thumbnail |-> FALSE,
     cookies_file |-> <<>>, rate_limit |-> <<>>, concurrent_fragments |-> <<>>,
     extra_args |-> <<>>]

IfSome(self, option, Method(_, _)) == IF option = <<>> THEN self ELSE Method(self, option[1])
IfSet(self, flag, Method(_)) == IF flag THEN Method(self) ELSE self

\* with_options, lines 146-212: one test after the other, in this order.
with_options(self, options) ==
    LET s1 == IfSome(self, as_arg(options.format), format)
        s2 == IfSome(s1, as_str(options.container), merge_output_format)
        s3 == IfSome(s2, options.output_template, output)
        s4 == IfSet(s3, options.embed_thumbnail, embed_thumbnail)
        s5 == IfSet(s4, options.embed_metadata, embed_metadata)
        s6 == IfSet(s5, options.embed_subtitles, embed_subtitles)
        s7 == IfSet(s6, options.extract_audio, extract_audio)
        s8 == IfSome(s7, options.audio_format, audio_format)
        s9 == IfSome(s8, options.audio_quality, audio_quality)
        s10 == IF options.subtitles_langs # <<>>
               THEN subtitles_langs(s9, options.subtitles_langs) ELSE s9
        s11 == IfSet(s10, options.write_subtitles, write_subtitles)
        s12 == IfSet(s11, options.write_thumbnail, write_thumbnail)
        s13 == IfSome(s12, options.cookies_file, cookies_file)
        s14 == IfSome(s13, options.rate_limit, rate_limit)
        s15 == IfSome(s14, options.concurrent_fragments, concurrent_fragments)
    IN  args(s15, options.extra_args)

ProgressTemplate ==
    "download:%(progress._percent_str)s %(progress._total_bytes_str)s %(progress._speed_str)s %(progress._eta_str)s"

\* The builder chain of YtDlp::download_with_progress (client.rs:229-240);
\* snapshot is the client's cookies_file, extra_args and ffmpeg_location.
download_args(snapshot, options, u, output_path) ==
    LET b1 == cookies_file_opt(<<>>, snapshot.cookies_file)
        b2 == args(b1, snapshot.extra_args)
        b3 == with_options(b2, options)
        b4 == output(b3, output_path)
        b5 == newline_progress(b4)
        b6 == progress_template(b5, ProgressTemplate)
        b7 == url(b6, u)
    IN  IfSome(b7, snapshot.ffmpeg_location, ffmpeg_location)

\* A call on the builder: the method, and its argument if it has one.
Call(method, value) == [method |-> method, value |-> value]

Apply(self, call) ==
    CASE call.method = "new" -> <<>>
      [] call.method = "format" -> format(self, call.value)
      [] call.method = "output" -> output(self, call.value)
      [] call.method = "url" -> url(self, call.value)
      [] call.method = "cookies_file_opt" -> cookies_file_opt(self, call.value)
      [] call.method = "with_options" -> with_options(self, call.value)
      [] call.method = "download_with_progress" ->
            download_args(call.value.snapshot, call.value.options,
                          call.value.url, call.value.output)

\* The options and the configuration snapshots of the behaviours.
SomeOptions ==
    {DefaultOptions,
     [DefaultOptions EXCEPT !.format = Variant("Best")],
     [DefaultOptions EXCEPT !.embed_metadata = TRUE, !.embed_thumbnail = TRUE],
     [DefaultOptions EXCEPT !.format = Custom("137+140"), !.container = Variant("Mkv"),
                            !.subtitles_langs = <<"en", "de">>,
                            !.write_subtitles = TRUE, !.concurrent_fragments = <<4>>],
     [DefaultOptions EXCEPT !.extract_audio = TRUE, !.audio_format = <<"mp3">>,
                            !.audio_quality = <<"0">>, !.rate_limit = <<"1M">>,
                            !.extra_args = <<"--no-mtime">>],
     [DefaultOptions EXCEPT !.output_template = <<OutputTemplate>>,
                            !.embed_subtitles = TRUE, !.write_thumbnail = TRUE,
                            !.cookies_file = <<"/tmp/cookies.txt">>]}
Snapshots ==
    [cookies_file : {<<>>, <<"/tmp/cookies.txt">>},
     extra_args : {<<>>, <<"--no-warnings">>},
     ffmpeg_location : {<<>>, <<"/usr/local/bin/ffmpeg">>}]
VideoUrl == "https://example.com/video"
OutputPath == "/tmp/video.mp4"

\* The calls of a behaviour, as a sequence: their arguments are of several types.
BuilderCalls(snapshot, options) ==
    <<Call("new", Null), Call("format", "best"), Call("output", OutputPath),
     Call("url", VideoUrl), Call("cookies_file_opt", <<>>),
     Call("cookies_file_opt", <<"/tmp/cookies.txt">>),
     Call("with_options", options),
     Call("download_with_progress",
          [snapshot |-> snapshot, options |-> options, url |-> VideoUrl,
           output |-> OutputPath])>>

\* The args of the builder: those the last call left.
Builder == IF log = <<>> THEN <<>> ELSE log[Len(log)].wrote

\* One call on the builder, observed with the args it leaves.
BuilderCall(call) ==
    /\ "builder" \in cfg.logging /\ Len(log) < cfg.maxLines
    /\ log' = Logged("builder", Obs("builder", call, NoPercent, Apply(Builder, call)))
    /\ UNCHANGED <<db, queue, reqs, nreq, active, states, tasks, timers, cfg, locks>>

----------------------------------------------------------------------------
(* Specifications. *)

\* What the environment may do in a behaviour: the lines a subprocess may
\* write (at most maxLines of them when events are logged), the number and
\* the kinds of the HTTP requests, and the kinds of observation kept in log;
\* with them, the capacity the command queue was created with.
Config(lines, maxLines, maxReq, kinds, logging) ==
    [lines |-> lines, maxLines |-> maxLines, maxReq |-> maxReq, kinds |-> kinds,
     logging |-> logging, capacity |-> QueueCapacity]

\* The same environment with a command queue of another capacity.
WithCapacity(config, capacity) == [config EXCEPT !.capacity = capacity]

\* The application after start-up: no download yet.
Start(config) ==
    /\ db = <<>> /\ queue = <<>> /\ reqs = EmptyBag /\ nreq = 0
    /\ active = <<>> /\ states = <<>> /\ tasks = <<>> /\ timers = {}
    /\ cfg = config
    /\ locks = Unlocked
    /\ log = <<>>

\* The application after start_download has answered 202 to the first
\* request: the row of download 1 is Pending and its Start is queued.
Accepted(config) ==
    /\ db = <<NewRow(1)>> /\ queue = <<StartCmd(1)>> /\ reqs = EmptyBag /\ nreq = 0
    /\ active = <<>> /\ states = <<>> /\ tasks = <<>> /\ timers = {}
    /\ cfg = config
    /\ locks = Unlocked
    /\ log = <<>>

\* The application after start_download has answered 202 to n requests, for
\* n videos, and before the worker has consumed any of their Starts.
AcceptedAll(config, n) ==
    /\ db = [id \in 1..n |-> NewRow(id)]
    /\ queue = [id \in 1..n |-> StartCmd(id)]
    /\ reqs = EmptyBag /\ nreq = 0
    /\ active = <<>> /\ states = <<>> /\ tasks = <<>> /\ timers = {}
    /\ cfg = config
    /\ locks = Unlocked
    /\ log = <<>>

StartHandler ==
    \/ \E video \in Videos : StartDownloadCheck(video)
    \/ \E q \in InFlight : StartDownloadInsert(q) \/ StartDownloadSend(q)

CancelHandler ==
    \/ \E id \in 1..(Len(db) + 1) : CancelDownloadCheck(id)
    \/ \E q \in InFlight :
          \/ CancelDownloadSend(q) \/ CancelDownloadUpdateStatus(q)
          \/ CancelDownloadUpdateFailed(q)

RetryHandler ==
    \/ \E id \in 1..(Len(db) + 1) : RetryDownloadCheck(id)
    \/ \E q \in InFlight : RetryDownloadUpdateStatus(q) \/ RetryDownloadSend(q)

\* The steps of process_download outside the cancellation branch.
Task(r) ==
    \/ TaskSetDownloading(r) \/ TaskSetDownloadingFails(r)
    \/ TaskInsertStarted(r)
    \/ \E message \in {ConfigError, CreateDirError} : TaskConfigFails(r, message)
    \/ TaskProgressState(r)
    \/ \E file_size \in {Null, "size"} : TaskPersist(r, file_size)
    \/ TaskLabel(r) \/ TaskRemoveHandle(r)
    \/ CleanupFires(r)

\* The steps of the event stream and of its child.
Stream(r) ==
    \/ StreamSpawn(r) \/ StreamSpawnFails(r)
    \/ StreamIoFails(r)
    \/ \E line \in cfg.lines : StreamLine(r, line)
    \/ \E code \in {0, 1} : StreamExit(r, code)
    \/ StreamEnd(r)
    \/ ChildExits(r)

\* Spec: the whole subsystem, from start-up, with every handler.
Init == Start(Config(SpecLines, 0, MaxRequests, {"start", "cancel", "retry"}, {}))

Next ==
    \/ StartHandler \/ CancelHandler \/ RetryHandler
    \/ WorkerStart \/ WorkerCancel
    \/ \E r \in Runs : Task(r) \/ Stream(r) \/ TaskCancelled(r)

Spec == Init /\ [][Next]_vars

\* RunSpec: one run of an accepted download that nobody cancels, with the
\* events of its stream and the results of its collaborators observed.
RunInit ==
    Accepted(Config(RunLines, MaxRunLines, 0, {}, {"events", "collaborators"}))

RunNext == WorkerStart \/ \E r \in Runs : Task(r) \/ Stream(r)

RunSpec == RunInit /\ [][RunNext]_vars

\* The steps of the event stream and of its child when the child writes
\* without waiting for the stream to read.
PipedStream(r) ==
    \/ StreamSpawn(r) \/ StreamSpawnFails(r)
    \/ StreamIoFails(r)
    \/ \E line \in cfg.lines : ChildWrites(r, line)
    \/ StreamRead(r)
    \/ \E code \in {0, 1} : StreamExit(r, code)
    \/ StreamEnd(r)
    \/ ChildExits(r)

\* OrderSpec: one run of an accepted download, with the lines its child
\* writes and the events of its stream observed.
OrderInit == Accepted(Config(OrderLines, MaxWritten, 0, {}, {"lines", "events"}))

OrderNext == WorkerStart \/ \E r \in Runs : Task(r) \/ PipedStream(r)

OrderSpec == OrderInit /\ [][OrderNext]_vars

\* ClassifySpec: the same run, with lines that several rules of the
\* classifier match and lines that none matches.
ClassifyInit ==
    Accepted(Config(ClassifyLines, MaxWritten, 0, {}, {"lines", "events"}))

ClassifySpec == ClassifyInit /\ [][OrderNext]_vars

\* FilenameSpec: the same run, with the lines that name the file written.
FilenameInit ==
    Accepted(Config(FilenameLines, MaxWritten, 0, {}, {"lines", "events"}))

FilenameSpec == FilenameInit /\ [][OrderNext]_vars

\* ProgressSpec: the same run, with the lines that report progress.
ProgressInit == Accepted(Config(ProgressLines, MaxProgressLines, 0, {}, {"events"}))

ProgressSpec == ProgressInit /\ [][RunNext]_vars

\* CancelSpec: one accepted download and the cancel requests for it, with
\* the worker's handling of each Cancel observed.
CancelInit == Accepted(Config(SpecLines, 0, MaxCancels, {"cancel"}, {"commands"}))

CancelNext ==
    \/ CancelHandler
    \/ WorkerStart \/ WorkerCancel
    \/ \E r \in Runs : Task(r) \/ Stream(r) \/ TaskCancelled(r)

CancelSpec == CancelInit /\ [][CancelNext]_vars

\* FairCancelSpec: CancelSpec under the scheduling of the runtime.  A request
\* that was received, the worker and a spawned task each take their next
\* step; a child that was spawned exits; select! picks among its ready
\* branches at random, so a branch that is ready again and again is taken.
\* Nothing obliges a request to arrive, a line to be written or a step to
\* fail.
CancelFairness ==
    /\ WF_vars(WorkerStart) /\ WF_vars(WorkerCancel)
    /\ WF_vars(\E q \in InFlight : CancelDownloadSend(q))
    /\ WF_vars(\E q \in InFlight : CancelDownloadUpdateStatus(q))
    /\ WF_vars(\E q \in InFlight : CancelDownloadUpdateFailed(q))
    /\ WF_vars(\E r \in Runs : TaskSetDownloading(r))
    /\ WF_vars(\E r \in Runs : TaskInsertStarted(r))
    /\ WF_vars(\E r \in Runs : StreamSpawn(r))
    /\ SF_vars(\E r \in Runs : \E code \in {0, 1} : StreamExit(r, code))
    /\ SF_vars(\E r \in Runs : TaskCancelled(r))
    /\ WF_vars(\E r \in Runs : StreamEnd(r))
    /\ WF_vars(\E r \in Runs : TaskProgressState(r))
    /\ WF_vars(\E r \in Runs : \E file_size \in {Null, "size"} : TaskPersist(r, file_size))
    /\ WF_vars(\E r \in Runs : TaskLabel(r))
    /\ WF_vars(\E r \in Runs : TaskRemoveHandle(r))
    /\ WF_vars(\E r \in Runs : CleanupFires(r))

FairCancelSpec == CancelSpec /\ CancelFairness

\* RetrySpec: one accepted download and the retry requests for it, with
\* the answer to each request observed.
RetryInit == Accepted(Config(SpecLines, 0, MaxRetries, {"retry"}, {"responses"}))

RetryNext ==
    \/ RetryHandler
    \/ WorkerStart
    \/ \E r \in Runs : Task(r) \/ Stream(r)

RetrySpec == RetryInit /\ [][RetryNext]_vars

\* QueueSpec: start requests from start-up, against a command queue small
\* enough for them to fill it.
QueueInit ==
    Start(WithCapacity(Config(SpecLines, 0, MaxSubmissions, {"start"}, {}),
                       SmallQueueCapacity))

QueueNext ==
    \/ StartHandler
    \/ WorkerStart
    \/ \E r \in Runs : Task(r) \/ Stream(r)

QueueSpec == QueueInit /\ [][QueueNext]_vars

\* WorkerSpec: the worker and the tasks of several accepted downloads.
WorkerInit ==
    AcceptedAll(WithCapacity(Config({L_Error}, 0, 0, {}, {}), MaxAccepted), MaxAccepted)

WorkerSpec == WorkerInit /\ [][RunNext]_vars

\* ScopeSpec: several accepted downloads and the cancel requests for them,
\* with the worker's handling of each Cancel observed.
ScopeInit ==
    AcceptedAll(WithCapacity(Config({L_Error}, 0, MaxCancels, {"cancel"}, {"commands"}),
                             MaxScoped + MaxCancels),
                MaxScoped)

ScopeSpec == ScopeInit /\ [][CancelNext]_vars

\* The table whose lock the next statement of a task takes: the task has
\* returned from the await before it and touches nothing in between (lines
\* 143, 215 after the update_progress of line 213, 267 and 321 after the
\* update_failed before them, 105 after process_download).
lock_point(t) ==
    CASE t.pc \in {"insert_started", "progress_state"} -> "states"
      [] t.pc = "label" /\ outcome(t) # "completed" -> "states"
      [] t.pc = "remove_handle" -> "active"
      [] OTHER -> Null

\* `.write().await` returns its guard to a task, to the worker (lines 88
\* and 110, a command in hand) or to a cleanup task (line 340, the sleep
\* over) while the other tasks of the runtime's threads go on.
TaskLock(r) ==
    /\ r \in Runs /\ lock_point(tasks[r]) # Null
    /\ locks[lock_point(tasks[r])] = NoHolder
    /\ locks' = [locks EXCEPT ![lock_point(tasks[r])] = TaskOf(r)]
    /\ UNCHANGED <<db, queue, reqs, nreq, active, states, tasks, timers, cfg, log>>

WorkerLock ==
    /\ queue # <<>> /\ locks["active"] = NoHolder
    /\ locks' = [locks EXCEPT !["active"] = TheWorker]
    /\ UNCHANGED <<db, queue, reqs, nreq, active, states, tasks, timers, cfg, log>>

CleanupLock(r) ==
    /\ r \in timers /\ locks["states"] = NoHolder
    /\ locks' = [locks EXCEPT !["states"] = CleanupOf(r)]
    /\ UNCHANGED <<db, queue, reqs, nreq, active, states, tasks, timers, cfg, log>>

\* TokenSpec: the numeric token parsers, each applied to the token of the
\* behaviour.
TokenInit ==
    \E token \in Tokens : Start(Config({token}, MaxParsed, 0, {}, {"parsers"}))

TokenNext ==
    \E token \in cfg.lines : ParseSize(token) \/ ParseSpeed(token) \/ ParseEta(token)

TokenSpec == TokenInit /\ [][TokenNext]_vars

\* EnvSpec: build_with_env, applied to the configured variables and the
\* PATH of the behaviour.
EnvInit == \E input \in EnvInputs : Start(Config({input}, MaxBuilt, 0, {}, {"builds"}))

EnvNext == \E input \in cfg.lines : BuildWithEnv(input)

EnvSpec == EnvInit /\ [][EnvNext]_vars

\* BuilderSpec: calls on one CommandBuilder, with the options and the
\* configuration snapshot of the behaviour.
BuilderInit ==
    \E snapshot \in Snapshots, options \in SomeOptions :
        Start(Config(BuilderCalls(snapshot, options), MaxCalls, 0, {}, {"builder"}))

BuilderNext == \E i \in DOMAIN cfg.lines : BuilderCall(cfg.lines[i])

BuilderSpec == BuilderInit /\ [][BuilderNext]_vars

\* LockSpec: the runs of several accepted downloads and the cancel requests
\* for them, with the guards of the two tables held from the return of
\* `.write().await` to their drop.
LockInit ==
    AcceptedAll(WithCapacity(Config({L_P50}, 0, MaxCancels, {"cancel"}, {}),
                             MaxLocked + MaxCancels),
                MaxLocked)

LockNext ==
    \/ CancelHandler
    \/ WorkerLock \/ WorkerStart \/ WorkerCancel
    \/ \E r \in Runs : TaskLock(r) \/ CleanupLock(r)
    \/ \E r \in Runs : Task(r) \/ Stream(r) \/ TaskCancelled(r)

LockSpec == LockInit /\ [][LockNext]_vars

\* FairLockSpec: LockSpec under the scheduling of the runtime: a task that
\* can take the statement it stands at takes it.  Nothing obliges the child
\* to write or to exit, a store write to return or a timer to fire.
LockFairness ==
    /\ WF_vars(WorkerStart) /\ WF_vars(WorkerCancel)
    /\ \A r \in 1..MaxLocked :
          /\ WF_vars(TaskInsertStarted(r)) /\ WF_vars(TaskProgressState(r))
          /\ WF_vars(TaskLabel(r)) /\ WF_vars(TaskRemoveHandle(r))
          /\ WF_vars(CleanupFires(r) /\ locks["states"] = CleanupOf(r))

FairLockSpec == LockSpec /\ LockFairness

----------------------------------------------------------------------------
(* Properties of the handlers, the worker and the tasks together. *)

\* The worker has consumed a Cancel{id} that reached the task of id while
\* the task was in its loop and its stream was reading the child's output.
CancelledMidStream(id) ==
    \E k \in 1..Len(log) :
        log[k].type = "CancelSignalled" /\ log[k].wrote = id
           /\ log[k].text = "reading"

\* The download is persisted Failed with "Cancelled by user" and the
\* ephemeral table has no entry for it.
CancelledOutcome(id) ==
    /\ db[id].status = Failed /\ db[id].error = CancelledByUser
    /\ id \notin DOMAIN states

\* C1: after a Cancel was consumed mid-stream, the download is eventually,
\* and from then on, persisted Failed with "Cancelled by user" and absent
\* from the ephemeral table.
C1_CancelMidStreamEndsCancelled ==
    [](CancelledMidStream(1) => <>[]CancelledOutcome(1))

\* Run r has ended as cancelled: process_download has returned after
\* leaving its loop by the cancellation branch.
EndedCancelled(r) ==
    /\ tasks[r].pc \in {"remove_handle", "done"}
    /\ tasks[r].error_message = CancelledByUser

\* C2: once a supervising task has ended as cancelled, the subprocess that
\* its run started is not alive any more.
C2_CancelledRunHasNoLiveChild ==
    \A r \in Runs : EndedCancelled(r) => tasks[r].proc # "alive"

\* The changes of status of section 4.4 of the specification.
AllowedChanges ==
    {<<Pending, Downloading>>, <<Downloading, Completed>>,
     <<Downloading, Failed>>, <<Failed, Pending>>}

\* C3: every change of a download's persisted status is Pending to
\* Downloading, Downloading to Completed, Downloading to Failed, or Failed
\* to Pending.
C3_StatusChangesAreAllowed ==
    [][\A id \in Ids :
          db'[id].status # db[id].status
             => <<db[id].status, db'[id].status>> \in AllowedChanges]_vars

\* C4: a download whose persisted status is Completed stays Completed.
C4_CompletedIsTerminal ==
    [][\A id \in Ids :
          db[id].status = Completed => db'[id].status = Completed]_vars

ConsumesCancel(id) ==
    queue # <<>> /\ Head(queue) = CancelCmd(id) /\ queue' = Tail(queue)

\* C6: when the worker consumes Cancel{id} while no supervising task of id
\* is running, it signals no task and leaves the handle table, the ephemeral
\* table and the persisted records as they are; the command is consumed.
C6_CancelOfIdleJobIsNoOp ==
    [][\A id \in 1..(Len(db) + 1) :
          ConsumesCancel(id) /\ ~Running(id)
             => UNCHANGED <<tasks, active, states, db, timers>>]_vars

\* C6's case: the worker has consumed a Cancel whose download had no
\* running task.
C6_CancelOfIdleJobConsumed ==
    \E k \in 1..Len(log) :
        log[k].type = "CancelIgnored" /\ log[k].text = "not running"

----------------------------------------------------------------------------
(* Properties of one observed run (RunSpec, ProgressSpec).  The run is     *)
(* task 1, of download 1; log holds the events of its stream in order.     *)

OfType(types) == SelectSeq(log, LAMBDA e : e.type \in types)
Last(seq) == seq[Len(seq)]
MaxOf(S) == CHOOSE m \in S : \A x \in S : x <= m

\* The percents the Progress events among log[1..k] reported, None as 0.
ReportedUpTo(k) ==
    {unwrap_percent(log[i].percent) : i \in {j \in 1..k : log[j].type = "Progress"}}

\* process_download has left its loop and made its terminal store write.
Persisted(r) == tasks[r].pc \in {"label", "remove_handle", "done"}

\* C7: the percent persisted at each Progress event is the maximum of the
\* percents reported up to and including that event, a missing percent
\* counting as 0; the record holds it when the write has been made.
C7_PersistedPercentIsRunningMaximum ==
    /\ \A k \in 1..Len(log) :
          log[k].type = "Progress" => log[k].wrote = MaxOf(ReportedUpTo(k) \cup {0})
    /\ \A r \in Runs :
          tasks[r].pc = "progress_state"
             => db[tasks[r].job].progress = Last(OfType({"Progress"})).wrote

\* C7's example: reported 10, 40, 5, 60 and persisted 10, 40, 40, 60.
C7_ClampExample ==
    LET progress == OfType({"Progress"})
    IN  /\ Len(progress) = 4
        /\ [k \in 1..4 |-> progress[k].percent] = <<Pct(10, 0), Pct(40, 0), Pct(5, 0), Pct(60, 0)>>
        /\ [k \in 1..4 |-> progress[k].wrote] = <<Pct(10, 0), Pct(40, 0), Pct(40, 0), Pct(60, 0)>>

\* The labels an ephemeral entry has before the terminal one.
NonTerminalLabels == {"started", "progress", "processing"}

\* C8: from its creation to its terminal label, no update of a download's
\* ephemeral entry lowers the percent it displays.
C8_DisplayedPercentNeverDecreases ==
    [][\A id \in DOMAIN states \cap DOMAIN states' :
          states[id].status \in NonTerminalLabels
             /\ states'[id].status \in NonTerminalLabels
             => states'[id].percent >= states[id].percent]_vars

\* The stream of the run has given a Destination line, Progress events with
\* increasing percents up to 100, no Error event and no stream error, and
\* the child has exited with code 0.
CleanRun ==
    LET progress == OfType({"Progress"})
    IN  /\ OfType({"DownloadStarted"}) # <<>>
        /\ progress # <<>> /\ Last(progress).percent = Pct(100, 0)
        /\ \A k \in 1..(Len(progress) - 1) :
              progress[k].percent < progress[k + 1].percent
        /\ OfType({"Error", "StreamError"}) = <<>>
        /\ \E k \in 1..Len(log) : log[k].type = "Exit" /\ log[k].percent = 0

\* C9: a clean run ends with the download persisted Completed, at percent
\* 100, with the file path of the Finished event, and with the ephemeral
\* label "completed", which stays until the cleanup removes the entry.
C9_CleanRunEndsCompleted ==
    CleanRun =>
       /\ Persisted(1) =>
             /\ db[1].status = Completed /\ db[1].progress = Pct(100, 0)
             /\ db[1].file_path = Last(OfType({"Finished"})).text
       /\ tasks[1].pc \in {"remove_handle", "done"} =>
             IF 1 \in timers THEN states[1] = StateInfo("completed", Pct(100, 0), Null)
             ELSE 1 \notin DOMAIN states

\* C9's case: a clean run has ended and its entry is labelled.
C9_CleanRunEnded ==
    /\ CleanRun /\ tasks[1].pc = "done" /\ 1 \in timers
    /\ db[1].file_path = "a.mp4"

\* C10: once the stream of the run has given an Error event (an "ERROR:"
\* line or a non-zero exit) or a stream error, the download is not
\* Completed and has no file path and no file size; when the run has ended
\* it is persisted Failed with the text of the last of these errors.
C10_FailedRunEndsFailed ==
    LET errors == OfType({"Error", "StreamError"})
    IN  errors # <<>> =>
           /\ db[1].status # Completed
           /\ db[1].file_path = Null /\ db[1].file_size = Null
           /\ Persisted(1) =>
                 db[1].status = Failed /\ db[1].error = Last(errors).text

\* C10's case: an "ERROR:" line after a Destination line, then exit code
\* 0 with its Finished event; the run has ended.
C10_ErrorThenFinished ==
    /\ OfType({"DownloadStarted"}) # <<>> /\ OfType({"Finished"}) # <<>>
    /\ OfType({"Error"}) # <<>> /\ Last(OfType({"Error"})).text = "Video unavailable"
    /\ tasks[1].pc = "done" /\ db[1].status = Failed

\* The events the classifier made of the child's lines: every logged event
\* but the one the stream makes of the exit code, which follows "Exit".
FromLine(k) == k = 1 \/ log[k - 1].type # "Exit"

ExitCodes == {log[k].percent : k \in {j \in 1..Len(log) : log[j].type = "Exit"}}

\* C11: a run whose child exits with a non-zero code is never Completed and
\* is persisted Failed once the run has made its terminal write, whatever
\* events came before the exit; a Completed record implies exit code 0.
C11_NonZeroExitIsFailure ==
    /\ ExitCodes \ {0} # {} =>
          /\ db[1].status # Completed
          /\ Persisted(1) => db[1].status = Failed
    /\ db[1].status = Completed => ExitCodes = {0}

\* C11's case: a "has already been downloaded" line gave a Finished event,
\* then the child exited with code 1, and the run has ended.
C11_FinishedThenNonZeroExit ==
    /\ \E k \in 1..Len(log) : log[k].type = "Finished" /\ FromLine(k)
    /\ 1 \in ExitCodes /\ tasks[1].pc = "done" /\ db[1].status = Failed

\* C12: when the classifier has made an Error event of a line of the run,
\* the message persisted with the Failed status is the message of that
\* event (of the last one, when there are several).
C12_ToolMessagePersistedVerbatim ==
    LET errors == {k \in 1..Len(log) : log[k].type = "Error" /\ FromLine(k)}
    IN  errors # {} /\ Persisted(1) =>
           /\ db[1].status = Failed
           /\ db[1].error = log[MaxOf(errors)].text

\* C13: when the run of a download has ended, the download's record is
\* terminal, and its ephemeral entry, if it still has one, carries a
\* terminal label and its removal is scheduled.
C13_EndedRunLeavesTerminalLabel ==
    tasks # <<>> /\ tasks[1].pc = "done" /\ db[1].status \in {Completed, Failed} =>
       \/ 1 \notin DOMAIN states
       \/ states[1].status \notin NonTerminalLabels /\ 1 \in timers

\* C19: when the download path cannot be read or the directory cannot be
\* created, the download is persisted Failed with the message of that
\* error, the run has no subprocess and no event, process_download has
\* returned, and the handle is gone once the task has ended.
C19_ConfigErrorEndsFailed ==
    LET failures == OfType({"ConfigError"})
    IN  failures # <<>> =>
           /\ db[1].status = Failed /\ db[1].error = Last(failures).text
           /\ db[1].error \in {ConfigError, CreateDirError}
           /\ tasks[1].proc = "none" /\ Len(log) = 1
           /\ tasks[1].pc \in {"remove_handle", "done"}
           /\ tasks[1].pc = "done" => 1 \notin DOMAIN active

\* C19's case: the directory could not be created and the task has ended.
C19_CreateDirFailed ==
    /\ log = <<Obs("ConfigError", CreateDirError, NoPercent, NoPercent)>>
    /\ tasks[1].pc = "done"

\* The collaborators that failed after the run's download completed.
FailedCollaborators ==
    {log[k].type : k \in {j \in 1..Len(log) : log[j].text = "failed"}}
       \cap {Collaborators[k] : k \in 1..Len(Collaborators)}

\* C20: when the thumbnail save, the media probe or the NFO write has
\* failed after a completed download, the record is Completed at percent
\* 100 with the file path of the run, and the ephemeral entry is labelled
\* "completed" until the scheduled cleanup removes it.
C20_CollaboratorFailureIsNotFatal ==
    FailedCollaborators # {} =>
       /\ db[1].status = Completed /\ db[1].progress = Pct(100, 0)
       /\ db[1].file_path = Last(OfType({"DownloadStarted", "Finished"})).text
       /\ db[1].error = Null
       /\ IF 1 \in timers THEN states[1] = StateInfo("completed", Pct(100, 0), Null)
          ELSE 1 \notin DOMAIN states

\* C20's case: the three collaborators failed, the task has ended and the
\* entry still waits for its cleanup.
C20_AllCollaboratorsFailed ==
    /\ FailedCollaborators = {"Thumbnail", "Probe", "Nfo"}
    /\ tasks[1].pc = "done" /\ 1 \in timers /\ db[1].file_path = "a.mp4"

\* The subprocess of run r is spawned in this step.
SpawnsChild(r) == tasks[r].proc = "none" /\ tasks'[r].proc # "none"

\* C21: a task that has just been spawned finds its handle registered; a
\* subprocess is spawned only when the record is Downloading with its start
\* timestamp and the ephemeral entry is labelled "started"; and a run
\* whose write of Downloading failed has ended with no subprocess, no
\* ephemeral entry and the record still Pending.
C21_StartOrder ==
    /\ [](\A r \in Runs :
            /\ tasks[r].pc = "update_status" =>
                  /\ tasks[r].job \in DOMAIN active /\ active[tasks[r].job] = r
                  /\ tasks[r].proc = "none"
            /\ tasks[r].proc # "none" => db[tasks[r].job].started
            /\ ~db[tasks[r].job].started /\ tasks[r].pc \in {"remove_handle", "done"} =>
                  /\ tasks[r].proc = "none" /\ tasks[r].job \notin DOMAIN states
                  /\ db[tasks[r].job].status = Pending)
    /\ [][\A r \in Runs :
            SpawnsChild(r) =>
               /\ db[tasks[r].job].status = Downloading /\ db[tasks[r].job].started
               /\ tasks[r].job \in DOMAIN states
               /\ states[tasks[r].job] = StateInfo("started", 0, Null)]_vars

\* C21's case: the subprocess of the run has just been spawned.
C21_ChildSpawned ==
    /\ tasks # <<>> /\ tasks[1].proc = "alive" /\ log = <<>>
    /\ db[1].status = Downloading /\ states[1].status = "started"

----------------------------------------------------------------------------
(* Properties of the order of a run's events (OrderSpec). *)

\* The lines the child has written, in the order it wrote them.
Written == [k \in 1..Len(OfType({"Line"})) |-> OfType({"Line"})[k].text]

\* The events of lines process_download has handled, in the order it
\* handled them.
Handled ==
    LET at == {k \in 1..Len(log) :
                  log[k].type \notin {"Line", "Exit", "StreamError", "ConfigError"}
                     /\ FromLine(k)
                     /\ log[k].type \notin {Collaborators[c] : c \in 1..Len(Collaborators)}}
        events == SelectSeq([k \in 1..Len(log) |-> [at |-> k, obs |-> log[k]]],
                            LAMBDA e : e.at \in at)
    IN  [k \in 1..Len(events) |-> events[k].obs]

\* The events the classifier makes of `lines`, read one after the other
\* from the current filename `cur`.
RECURSIVE Classified(_, _)
Classified(lines, cur) ==
    IF lines = <<>> THEN <<>>
    ELSE LET parsed == parse_progress_line(Head(lines), cur)
         IN  (IF parsed.event = NoEvent THEN <<>> ELSE <<parsed.event>>)
                \o Classified(Tail(lines), parsed.cur)

\* The handled events are those of the first n written lines, in order.
HandledAre(n) ==
    LET events == Classified(SubSeq(Written, 1, n), Null)
    IN  /\ Len(Handled) = Len(events)
        /\ \A k \in 1..Len(events) :
              /\ Handled[k].type = events[k].type
              /\ Handled[k].text = events[k].text
              /\ Handled[k].percent = events[k].percent

\* The store and the ephemeral table hold what the handling of the last
\* handled event wrote.
LastEventApplied ==
    Handled # <<>> =>
       LET last == Last(Handled)
       IN  /\ last.type = "Progress" =>
                /\ db[1].progress = last.wrote
                /\ states[1] = StateInfo("progress", last.wrote, Null)
           /\ last.type = "PostProcessing" =>
                states[1] = StateInfo("processing", Pct(100, 0), last.text)

\* The stream reads a line of run r in this step.
ReadsLine(r) == Len(tasks'[r].pipe) < Len(tasks[r].pipe) /\ tasks'[r].stream = "reading"

\* C22: the events process_download has handled are those of the lines the
\* stream has read, which are the oldest lines written, in the order of
\* the lines; and the stream reads a line only when the handling of the
\* event before it has made its store and ephemeral writes.
C22_EventsInArrivalOrder ==
    /\ [](tasks # <<>> =>
            IF tasks[1].stream = "reading"
            THEN HandledAre(Len(Written) - Len(tasks[1].pipe))
            ELSE \E n \in 0..Len(Written) : HandledAre(n))
    /\ [][\A r \in Runs : ReadsLine(r) => tasks[r].pc = "select" /\ LastEventApplied]_vars

\* C22's case: the child wrote 40% and then 10% before the stream read
\* either, and both Progress events have been handled, in that order.
C22_TwoLinesAhead ==
    /\ Len(Handled) = 2 /\ Written = <<L_P40, L_P10>>
    /\ Handled[1].percent = Pct(40, 0) /\ Handled[2].percent = Pct(10, 0)
    /\ \E k \in 1..Len(log) : log[k].type = "Line" /\ k > 1 /\ log[k - 1].type = "Line"

----------------------------------------------------------------------------
(* Properties of cancellation among several downloads (ScopeSpec). *)

\* What the application holds for download id: its tasks, its handle, its
\* record and its ephemeral entry.
HeldFor(id) ==
    [runs |-> {<<r, tasks[r]>> : r \in {x \in Runs : tasks[x].job = id}},
     handle |-> SenderOf(id),
     record |-> db[id],
     entry |-> IF id \in DOMAIN states THEN {states[id]} ELSE {}]

\* C23: the step in which the worker consumes Cancel{a} changes nothing of
\* what is held for another download b; and a run ends as cancelled only
\* when a Cancel of its own download was signalled to it.
C23_CancelIsJobScoped ==
    /\ [](\A r \in Runs :
            tasks[r].error_message = CancelledByUser =>
               \E k \in 1..Len(log) :
                   log[k].type = "CancelSignalled" /\ log[k].wrote = tasks[r].job)
    /\ [][\A a \in 1..(Len(db) + 1) : \A b \in Ids :
            ConsumesCancel(a) /\ a # b => HeldFor(b)' = HeldFor(b)]_vars

\* C23's case: the Cancel of download 1 was signalled while the run of
\* download 2 had its subprocess; run 1 ended cancelled and run 2 completed.
C23_OtherJobCompletes ==
    /\ \E k \in 1..Len(log) :
          log[k] = Obs("CancelSignalled", "reading", NoPercent, 1)
    /\ \E r \in Runs : tasks[r].job = 1 /\ EndedCancelled(r)
    /\ \E r \in Runs : tasks[r].job = 2 /\ tasks[r].pc = "done" /\ ~tasks[r].had_error
    /\ db[2].status = Completed

----------------------------------------------------------------------------
(* Properties of the classifier (ClassifySpec). *)

\* The patterns of the classifier's rules, in the order of precedence, and
\* the event of each rule; the last rule is that of a line no pattern
\* matches.
Pattern(k, line) ==
    CASE k = 1 -> StartsWith(line, "[download] Destination:")
      [] k = 2 -> StartsWith(line, "[download]") /\ Contains(line, "%")
      [] k = 3 -> StartsWith(line, "download:")
      [] k = 4 -> Contains(line, "%")
      [] k = 5 -> StartsWith(line, "[Merger]") \/ Contains(line, "Merging formats")
      [] k = 6 -> StartsWith(line, "[EmbedThumbnail]")
      [] k = 7 -> StartsWith(line, "[Metadata]")
      [] k = 8 -> StartsWith(line, "[ExtractAudio]") \/ StartsWith(line, "[ffmpeg]")
      [] k = 9 -> Contains(line, "has already been downloaded")
      [] k = 10 -> StartsWith(line, "WARNING:")
      [] k = 11 -> StartsWith(line, "ERROR:")
      [] OTHER -> TRUE

RuleEvents ==
    <<"DownloadStarted", "Progress", "Progress", "Progress", "MergingFormats",
      "EmbeddingThumbnail", "EmbeddingMetadata", "PostProcessing", "Finished",
      "Warning", "Error", "None">>

FirstRule(line) == CHOOSE k \in 1..Len(RuleEvents) :
    Pattern(k, line) /\ \A j \in 1..(k - 1) : ~Pattern(j, line)

\* The numeric progress parse of the rule succeeds on the line.
NumericParse(k, line) ==
    /\ k \in {2, 4} => LineFacts[line].pct # NoPercent
    /\ k = 3 => LineFacts[line].tpl # NoPercent

\* The event process_download is given in this step, if any.
Emitted == IF Len(log') > Len(log) THEN log'[Len(log')] ELSE NoEvent

\* C25: the first rule, in the order of precedence, whose pattern matches
\* the line the stream reads decides the event, whatever later patterns the
\* line matches too: a line with the Destination prefix yields
\* DownloadStarted with the trailing path, which becomes the current
\* filename, even when it contains '%', and a progress line yields Progress
\* with the percent it carries.
C25_FirstMatchingRuleDecides ==
    [][\A r \in Runs : ReadsLine(r) =>
          LET line == Head(tasks[r].pipe)
              k == FirstRule(line)
          IN  NumericParse(k, line) =>
                 /\ Emitted.type = RuleEvents[k]
                 /\ k = 1 => /\ Emitted.text = LineFacts[line].rest
                             /\ tasks'[r].current_filename = LineFacts[line].rest
                 /\ k \in {2, 4} => Emitted.percent = LineFacts[line].pct
                 /\ k = 3 => Emitted.percent = LineFacts[line].tpl]_vars

\* Witness for C25: the child wrote a Destination line that contains '%'
\* and then the bare line of 14.6%; the stream has given DownloadStarted
\* with the path, which is the current filename, and Progress with 14.6.
C25_DestinationThenBarePercent ==
    /\ Written = <<L_DestPct, L_Bare>> /\ Len(Handled) = 2
    /\ Handled[1].type = "DownloadStarted" /\ Handled[1].text = "100% a.mp4"
    /\ Handled[2].type = "Progress" /\ Handled[2].percent = Pct(14, 6)
    /\ tasks[1].current_filename = "100% a.mp4"

\* The first rule after the progress rules whose pattern matches the line.
LaterRule(line) == CHOOSE k \in 5..Len(RuleEvents) :
    Pattern(k, line) /\ \A j \in 5..(k - 1) : ~Pattern(j, line)

\* C26: a line that contains '%' is made a Progress event only when the
\* numeric progress parse finds a percent in it; when it finds none, the
\* later rules classify the line, so that a line with the "ERROR:" or the
\* "WARNING:" prefix yields Error or Warning with its message.
C26_PercentWithoutNumberFallsThrough ==
    [][\A r \in Runs : ReadsLine(r) =>
          LET line == Head(tasks[r].pipe)
          IN  Contains(line, "%") /\ FirstRule(line) \in {2, 4}
                 /\ LineFacts[line].pct = NoPercent =>
                 /\ Emitted.type = RuleEvents[LaterRule(line)]
                 /\ LaterRule(line) \in {10, 11} =>
                       Emitted.text = LineFacts[line].rest]_vars

\* The lines of `lines` that some rule of the classifier matches.
Recognized(lines) == SelectSeq(lines, LAMBDA line : FirstRule(line) # Len(RuleEvents))

\* The handled events are those of the recognized lines among the first n
\* written lines, in order.
HandledAreOfRecognized(n) ==
    LET events == Classified(Recognized(SubSeq(Written, 1, n)), Null)
    IN  /\ Len(Handled) = Len(events)
        /\ \A k \in 1..Len(events) :
              /\ Handled[k].type = events[k].type
              /\ Handled[k].text = events[k].text
              /\ Handled[k].percent = events[k].percent

\* C27: a line that no rule of the classifier matches is read and dropped:
\* the step that reads it gives process_download no event and changes
\* nothing but the pipe (not the current filename, not the error state, not
\* the persisted record, not the ephemeral entry), so that the run goes on
\* from the state it would be in without the line; and the events handled
\* are those of the other lines written, in order.
C27_UnrecognizedLinesChangeNothing ==
    /\ [][\A r \in Runs :
            ReadsLine(r) /\ FirstRule(Head(tasks[r].pipe)) = Len(RuleEvents) =>
               /\ tasks' = [tasks EXCEPT ![r].pipe = Tail(@)]
               /\ UNCHANGED <<db, queue, active, states, timers, log>>]_vars
    /\ [](tasks # <<>> =>
            IF tasks[1].stream = "reading"
            THEN HandledAreOfRecognized(Len(Written) - Len(tasks[1].pipe))
            ELSE \E n \in 0..Len(Written) : HandledAreOfRecognized(n))

\* Witness for C27: the child wrote a line no rule matches between the
\* Destination line and the line of a finished download; the run has ended
\* with the two events of the other lines handled and the record Completed
\* with the path of the Destination line.
C27_UnknownLineBetweenEvents ==
    /\ Written = <<L_DestPct, L_Other, L_Already>>
    /\ Len(Handled) = 2
    /\ Handled[1].type = "DownloadStarted" /\ Handled[2].type = "Finished"
    /\ tasks[1].pc = "done" /\ db[1].status = Completed
    /\ db[1].file_path = "100% a.mp4" /\ db[1].error = Null

----------------------------------------------------------------------------
(* Properties of the numeric token parsers (TokenSpec). *)

\* The calls of `parser` observed so far.
Calls(parser) == {k \in 1..Len(log) : log[k].type = parser}

\* The token writes a size: a number and then a unit the parser knows.
WritesSize(token) ==
    token.kind \in {"size", "speed"} /\ token.mantissa # <<>> /\ token.mult # <<>>

\* ratio * mult is the integer `product`.
IsProduct(product, ratio, mult) ==
    mult % ratio.den = 0 /\ product = ratio.num * (mult \div ratio.den)

\* The integer part of ratio * mult, and 0 when it is negative.
IntegerPart(ratio, mult) ==
    IF ratio.num < 0 THEN 0
    ELSE IF mult % ratio.den = 0 THEN ratio.num * (mult \div ratio.den)
    ELSE (ratio.num * mult) \div ratio.den

SizeExamples ==
    {<<<<"1", "0", "0", "M", "i", "B">>, 104857600>>,
     <<<<"1", "G", "i", "B">>, 1073741824>>,
     <<<<"5", "0", "0", "K", "i", "B">>, 512000>>,
     <<<<"1", "0", "0", "0", "B">>, 1000>>}

\* The sizes of the examples, and no value where the token writes no size.
SizesOtherwise ==
    /\ \A k \in Calls("parse_size") : \A example \in SizeExamples :
          log[k].text.text = example[1] => log[k].wrote = <<example[2]>>
    /\ \A k \in Calls("parse_size") :
          ~(WritesSize(log[k].text) /\ log[k].text.kind = "size") => log[k].wrote = <<>>
    /\ \A k \in Calls("parse_speed") :
          ~WritesSize(log[k].text) => log[k].wrote = <<>>

IsHalves(value, halves) == 2 * value.num = halves * Pow10(value.scale)
Halves(ratio) == ratio.num * (2 \div ratio.den)

\* Twice the seconds that the parts of an ETA token write: seconds, minutes
\* and seconds, or hours, minutes and seconds.
EtaHalves(parts) ==
    CASE Len(parts) = 1 -> Halves(parts[1][1])
      [] Len(parts) = 2 -> 60 * Halves(parts[1][1]) + Halves(parts[2][1])
      [] Len(parts) = 3 ->
           3600 * Halves(parts[1][1]) + 60 * Halves(parts[2][1]) + Halves(parts[3][1])

\* The parts of a token, as parse_eta is to see them: those of an ETA
\* token, and the whole text of any other token.
EtaParts(token) ==
    IF token.kind = "eta" THEN token.parts
    ELSE IF \E m \in Mantissas : m.text = token.text
    THEN <<(CHOOSE m \in Mantissas : m.text = token.text).value>>
    ELSE <<<<>>>>

\* C29: parse_eta splits its token on ':' and returns the seconds of one
\* part, 60 * minutes + seconds of two parts and 3600 * hours + 60 * minutes
\* + seconds of three parts ("1:30" gives 90, "1:00:00" gives 3600); it
\* returns no value for "N/A", "Unknown", the empty token, a token of more
\* than three parts and a token with a part that is no number.
C29_EtaIsTheSumOfItsParts ==
    \A k \in Calls("parse_eta") :
       LET token == log[k].text
           parts == EtaParts(token)
       IN  /\ token.text = <<"1", ":", "3", "0">> => log[k].wrote = <<F64(90, 0)>>
           /\ token.text = <<"1", ":", "0", "0", ":", "0", "0">> =>
                 log[k].wrote = <<F64(3600, 0)>>
           /\ IF Len(parts) <= 3 /\ \A i \in 1..Len(parts) : parts[i] # <<>>
              THEN log[k].wrote # <<>> /\ IsHalves(log[k].wrote[1], EtaHalves(parts))
              ELSE log[k].wrote = <<>>

\* Witness for C29: parse_eta was given "1.5:30" and returned 120 seconds,
\* and parse_size returned no value for it.
C29_MinutesAndSeconds ==
    /\ Len(log) = 2
    /\ log[1].text.text = <<"1", ".", "5", ":", "3", "0">>
    /\ log[1].type = "parse_eta" /\ log[1].wrote # <<>>
    /\ IsHalves(log[1].wrote[1], 240)
    /\ log[2].type = "parse_size" /\ log[2].wrote = <<>>

----------------------------------------------------------------------------
(* Properties of the argument vector (BuilderSpec). *)

\* The args before the k-th call on the builder.
ArgsBefore(k) == IF k = 1 THEN <<>> ELSE log[k - 1].wrote
IsPrefix(p, q) == Len(p) <= Len(q) /\ SubSeq(q, 1, Len(p)) = p
SameCall(c, d) == c.method = d.method /\ c.value = d.value
Position(a, vector) == CHOOSE i \in 1..Len(vector) : vector[i] = a

\* C31: every builder call leaves the args it found in place and appends
\* its own after them (format("best") appends -f best, output(p) appends
\* -o p, url(u) appends u); cookies_file_opt(None) and with_options of the
\* default options append nothing; the same call on the same args, and the
\* download chain on the same snapshot, options, URL and output path, give
\* the same vector, which holds -o and the output path before the URL.
C31_ArgsAreAppendedInCallOrder ==
    \A k \in Calls("builder") :
       LET call == log[k].text
           before == ArgsBefore(k)
           after == log[k].wrote
       IN  /\ call.method \notin {"new", "download_with_progress"} => IsPrefix(before, after)
           /\ call.method = "format" => after = before \o <<"-f", call.value>>
           /\ call.method = "output" => after = before \o <<"-o", call.value>>
           /\ call.method = "url" => after = before \o <<call.value>>
           /\ call.method = "cookies_file_opt" /\ call.value = <<>> => after = before
           /\ call.method = "with_options" /\ call.value = DefaultOptions => after = before
           /\ call.method = "download_with_progress" =>
                 /\ \E i \in 1..Len(after) - 1 :
                       /\ after[i] = "-o" /\ after[i + 1] = call.value.output
                       /\ i + 1 < Position(call.value.url, after)
                 /\ after[Len(after)] = call.value.url
                    \/ /\ call.value.snapshot.ffmpeg_location # <<>>
                       /\ after[Len(after) - 2] = call.value.url
           /\ \A j \in Calls("builder") :
                 /\ SameCall(log[j].text, call)
                 /\ call.method = "download_with_progress" \/ ArgsBefore(j) = before
                 => log[j].wrote = after

\* The builder of the example: format("best"), output(p), url(u).
C31_FormatOutputUrl ==
    /\ Len(log) = 3
    /\ log[1].text.method = "format" /\ log[2].text.method = "output"
    /\ log[3].text.method = "url"
    /\ log[3].wrote = <<"-f", "best", "-o", OutputPath, VideoUrl>>

----------------------------------------------------------------------------
(* Properties of the subprocess's environment (EnvSpec). *)

\* C30: build_with_env never passes PATH_PREPEND to the subprocess; when
\* PATH_PREPEND is configured the subprocess's PATH is its value, then ':',
\* then the PATH of the process; every other configured variable is passed
\* with its value; and without PATH_PREPEND the PATH is not overridden.
C30_PathPrependPrefixesPath ==
    \A k \in Calls("build_with_env") :
       LET env_vars == log[k].text.env_vars
           current_path == IF log[k].text.current_path = Null THEN ""
                           ELSE log[k].text.current_path
           envs == log[k].wrote
       IN  /\ "PATH_PREPEND" \notin DOMAIN envs
           /\ "PATH_PREPEND" \in DOMAIN env_vars =>
                 /\ "PATH" \in DOMAIN envs
                 /\ envs["PATH"] = env_vars["PATH_PREPEND"] \o ":" \o current_path
           /\ \A key \in DOMAIN env_vars \ {"PATH_PREPEND"} :
                 key \in DOMAIN envs /\ envs[key] = env_vars[key]
           /\ DOMAIN envs \subseteq (DOMAIN env_vars \ {"PATH_PREPEND"}) \cup {"PATH"}
           /\ "PATH_PREPEND" \notin DOMAIN env_vars /\ "PATH" \notin DOMAIN env_vars =>
                 "PATH" \notin DOMAIN envs

----------------------------------------------------------------------------
(* Properties of the locks of the two tables (FairLockSpec). *)

\* The holder of the guard of `table` stands at the statement that uses the
\* table: a task at its lock point, the worker with a command in hand, a
\* cleanup task after its sleep.
InSection(table) ==
    LET holder == locks[table]
    IN  CASE holder.who = "task" -> lock_point(tasks[holder.run]) = table
          [] holder.who = "worker" -> table = "active" /\ queue # <<>>
          [] holder.who = "cleanup" -> table = "states" /\ holder.run \in timers
          [] OTHER -> TRUE

\* A step of the program that drops the guard of `table`.
Drops(table) == LockNext /\ locks[table] # NoHolder /\ locks'[table] = NoHolder

\* A task stands at `.write().await` while another task holds the guard.
WaitsFor(r, table) ==
    /\ r \in Runs /\ lock_point(tasks[r]) = table
    /\ locks[table] \notin {NoHolder, TaskOf(r)}

\* C24: every access to the cancellation-handle table and to the
\* ephemeral-status table is a short critical section.  Whoever holds the
\* guard of a table stands at the statement that uses the table, and not at
\* a wait for a store write, for the child's output, for the cancellation
\* signal, for a timer or for the command queue, and the step that drops
\* the guard can be taken; so each lock is free again and again, for the
\* worker and for every task to take.
C24_GuardsAreShortLived ==
    /\ [](\A table \in Tables :
            locks[table] # NoHolder => InSection(table) /\ ENABLED Drops(table))
    /\ \A table \in Tables : []<>(locks[table] = NoHolder)

\* Witness for C24: the worker holds the guard of the handle table, and a
\* task holds the guard of the status table while another task, back from
\* the store write of a Progress event, waits for it.
C24_TaskWaitsForHeldGuard ==
    /\ locks["active"] = TheWorker /\ locks["states"].who = "task"
    /\ \E r \in Runs : WaitsFor(r, "states") /\ tasks[r].pc = "progress_state"

----------------------------------------------------------------------------
(* Properties of a retried download (RetrySpec, Spec). *)

\* Run r was started by a retry: its download had a run before.
RetriedRun(r) == \E r0 \in 1..(r - 1) : tasks[r0].job = tasks[r].job

\* C14: when the run that a Retry started has completed successfully (it
\* has made its terminal write, update_completed), the record is Completed
\* and holds no error message of the earlier failure.
C14_RetriedCompletionClearsError ==
    \A r \in Runs :
        RetriedRun(r) /\ tasks[r].pc = "label" /\ outcome(tasks[r]) = "completed"
           => /\ db[tasks[r].job].status = Completed
              /\ db[tasks[r].job].error = Null

\* A retry request for download id is received: it is either taken in
\* hand (it waits at its first write) or answered at once.
RetryArrives(id) ==
    /\ nreq' = nreq + 1
    /\ \/ CopiesIn(Request("retry", id, "update_status"), reqs')
             > CopiesIn(Request("retry", id, "update_status"), reqs)
       \/ /\ Len(log') = Len(log) + 1
          /\ Last(log').text = "retry" /\ Last(log').wrote = id

\* C15: a retry request for a download that is Pending, Downloading or
\* Completed is answered with the error 400 at once; it changes no record,
\* sends no command and leaves nothing of itself in flight.
C15_RetryOnlyOfFailed ==
    [][\A id \in Ids :
          RetryArrives(id) /\ db[id].status # Failed
             => /\ log' = Append(log, Obs("Response", "retry", 400, id))
                /\ UNCHANGED <<db, queue, reqs, tasks>>]_vars

\* C15's case: the retry request was rejected and the download, never
\* retried, has completed its only run.
C15_RetryRejected ==
    /\ \E k \in 1..Len(log) : log[k] = Obs("Response", "retry", 400, 1)
    /\ Len(tasks) = 1 /\ tasks[1].pc = "done" /\ queue = <<>>
    /\ db[1].status = Completed

\* A request is submitting a command: it stands at the send of its handler.
Submitting(q) == q \in InFlight /\ q.pc = "send"

\* C16: no request waits at its send for room in a full command queue (a
\* submission to a full queue fails at once).
C16_NoSubmitterWaitsForRoom ==
    \A q \in InFlight : Submitting(q) => Len(queue) < cfg.capacity

----------------------------------------------------------------------------
(* Properties of the worker with several downloads (WorkerSpec). *)

\* The worker takes Start{id} from the queue.
ConsumesStart(id) ==
    queue # <<>> /\ Head(queue) = StartCmd(id) /\ Len(queue') = Len(queue) - 1

\* C17: the worker can take the Start at the head of the queue however
\* many tasks are running, and it spawns the task of a Start in the step
\* that consumes it: the number of running tasks is bounded by the number
\* of Starts consumed, not by the setting.
C17_EveryStartSpawnsAtOnce ==
    /\ [](queue # <<>> /\ Head(queue).type = "Start" => ENABLED WorkerStart)
    /\ [][\A id \in Ids :
            ConsumesStart(id)
               => /\ Len(tasks') = Len(tasks) + 1
                  /\ Last(tasks') = NewTask(id)
                  /\ Cardinality({r \in 1..Len(tasks') : tasks'[r].pc # "done"})
                        = Cardinality(RunningTasks) + 1]_vars

\* C17's case: the tasks of MaxAccepted downloads with distinct ids run at
\* the same time, each with its subprocess, and they are more than the
\* setting allows.
C17_MoreTasksThanTheSetting ==
    /\ Cardinality(RunningTasks) = MaxAccepted
    /\ Cardinality({tasks[r].job : r \in RunningTasks}) = MaxAccepted
    /\ \A r \in RunningTasks : tasks[r].proc = "alive"
    /\ MaxAccepted > max_concurrent_downloads

----------------------------------------------------------------------------
(* Properties of the runs of a download over its whole life (Spec). *)

\* The Start commands submitted for download id so far: those still in the
\* queue and those the worker consumed, each of which spawned one task.
StartsSubmitted(id) ==
    Cardinality({k \in 1..Len(queue) : queue[k] = StartCmd(id)})
       + Cardinality({r \in Runs : tasks[r].job = id})

\* The subprocess runs started for download id so far.
StartedRuns(id) == {r \in Runs : tasks[r].job = id /\ tasks[r].proc # "none"}

\* A caller has issued a Retry for download id: the request is in hand, or
\* it has sent its Start (start_download sends one Start per id, so a
\* second one comes from a retry).
RetryIssued(id) ==
    \/ \E q \in InFlight : q.kind = "retry" /\ q.target = id
    \/ StartsSubmitted(id) > 1

\* C18: a download persisted Failed for which no Retry was issued stays
\* Failed and gets no new subprocess run; and the subprocess runs started
\* for a download are never more than the Starts submitted for it.
C18_NoRetryIsAutomatic ==
    /\ [](\A id \in Ids : Cardinality(StartedRuns(id)) <= StartsSubmitted(id))
    /\ [][\A id \in Ids :
            db[id].status = Failed /\ ~RetryIssued(id)
               => /\ db'[id].status = Failed
                  /\ StartedRuns(id)' = StartedRuns(id)]_vars

----------------------------------------------------------------------------
(* Properties of the runs of one download that overlap (Spec). *)

\* Run r has been spawned and has not finished its last statement.
Supervising(r) == tasks[r].pc # "done"

\* Run r is in progress: it has written its "started" entry and has not
\* yet written its terminal entry.
InProgress(r) == tasks[r].pc \in {"select", "progress_state", "persist", "label"}

\* C32: when a handle leaves the handle table and no Cancel was consumed,
\* the run it was registered for is the run whose task ends in that step.
C32_TaskRemovesItsOwnHandle ==
    [][\A id \in DOMAIN active :
          id \notin DOMAIN active' /\ queue' = queue
             => /\ tasks[active[id]].pc = "remove_handle"
                /\ tasks'[active[id]].pc = "done"]_vars

\* C33: a run takes the cancellation branch only after the worker has
\* consumed a Cancel of its download while its handle was registered, that
\* is, after a value was sent to its receiver.
C33_CancelledOnlyByCancel ==
    [][\A r \in Runs :
          tasks[r].error_message # CancelledByUser
             /\ tasks'[r].error_message = CancelledByUser
             => tasks[r].rx = "sent"]_vars

\* C34: no download has two supervising tasks, or two live subprocesses,
\* at once.
C34_OneTaskAndOneChildPerJob ==
    \A r1, r2 \in Runs :
        r1 # r2 /\ tasks[r1].job = tasks[r2].job
           => /\ ~(Supervising(r1) /\ Supervising(r2))
              /\ ~(tasks[r1].proc = "alive" /\ tasks[r2].proc = "alive")

\* C35: a run in progress has its ephemeral entry, and the entry of a run
\* whose cleanup is scheduled is there until that cleanup fires.
C35_CleanupRemovesOnlyItsOwnEntry ==
    /\ \A r \in Runs : InProgress(r) => tasks[r].job \in DOMAIN states
    /\ \A r \in timers : tasks[r].job \in DOMAIN states

\* The download records of a video that are not Failed.
LiveRecords(video) == {id \in Ids : db[id].video = video /\ db[id].status # Failed}

\* C36: no video has two download records that are not Failed, and no
\* video has two downloads with a supervising task at once.
C36_OneLiveRecordPerVideo ==
    \A video \in Videos :
        /\ Cardinality(LiveRecords(video)) <= 1
        /\ \A r1, r2 \in Runs :
              /\ db[tasks[r1].job].video = video /\ db[tasks[r2].job].video = video
              /\ Supervising(r1) /\ Supervising(r2)
              => tasks[r1].job = tasks[r2].job

----------------------------------------------------------------------------
(* Properties of the end of a run (FairCancelSpec). *)

\* The worker has consumed the Start of download id and the first store
\* write of the run, update_status(Downloading), has succeeded.
StartConsumed(id) ==
    \E r \in Runs : tasks[r].job = id /\ tasks[r].pc = "insert_started"

\* Download id is persisted Completed or Failed, no supervising task of it
\* is running and the handle table has no handle for it.
RunOver(id) ==
    /\ db[id].status \in {Completed, Failed}
    /\ ~Running(id)
    /\ id \notin DOMAIN active

----------------------------------------------------------------------------
(* Properties of the persisted file path (FilenameSpec). *)

\* The file a line names: the path of a Destination line, the quoted path
\* of a Merger line; Null for any other line.
NamedBy(line) ==
    IF StartsWith(line, "[download] Destination:") THEN LineFacts[line].rest
    ELSE IF StartsWith(line, "[Merger]") \/ Contains(line, "Merging formats")
      THEN LineFacts[line].quoted
    ELSE Null

\* The file named by the last of `lines` that names one; the output path
\* template when none does.
RECURSIVE LastNamed(_)
LastNamed(lines) ==
    IF lines = <<>> THEN OutputTemplate
    ELSE IF NamedBy(Last(lines)) # Null THEN NamedBy(Last(lines))
    ELSE LastNamed(SubSeq(lines, 1, Len(lines) - 1))

\* C38: the file path of a download persisted Completed is the path of the
\* last Destination line or the quoted path of the last Merger line that
\* the child wrote, whichever came last, and the output path template when
\* it wrote neither.
C38_PersistedPathIsLastNamedFile ==
    db[1].status = Completed => db[1].file_path = LastNamed(Written)

----------------------------------------------------------------------------
(* Properties of the end of the event stream (RunSpec). *)

\* The ends of the stream observed so far: a stream error, or the exit of
\* the child with the event made of its exit code.
StreamEnds == OfType({"StreamError", "Exit"})

\* The stream has ended as it may: with one stream error and nothing
\* after it, or with one exit of the child, followed by an Error event
\* when the code is not 0 and by a Finished event when it is.
EndedOnce ==
    /\ Len(StreamEnds) = 1
    /\ \A k \in 1..Len(log) :
          /\ log[k].type = "StreamError" => k = Len(log)
          /\ log[k].type = "Exit" =>
                /\ k + 1 <= Len(log)
                /\ log[k + 1].type = IF log[k].percent = 0 THEN "Finished" ELSE "Error"
                /\ \A j \in (k + 2)..Len(log) :
                      log[j].type \in {Collaborators[c] : c \in 1..Len(Collaborators)}

\* C39: no run takes the branch "Download completed but no file found":
\* when the loop of a run is over, its stream has ended with exactly one
\* of a stream error, an Error event for a non-zero exit and a Finished
\* event for exit code 0, and a run without the error flag has received a
\* Finished event and has a file name.
C39_NoFileFoundIsUnreachable ==
    /\ \A id \in Ids : db[id].error # NoFileFound
    /\ \A id \in DOMAIN states : states[id].error # "No file found"
    /\ \A r \in Runs :
          tasks[r].pc \in {"persist", "label"} =>
             /\ outcome(tasks[r]) # "no_file"
             /\ EndedOnce
             /\ ~tasks[r].had_error =>
                   /\ OfType({"Finished"}) # <<>>
                   /\ Last(log).type = "Finished" \/ tasks[r].pc = "label"
                   /\ tasks[r].final_filename = Last(OfType({"Finished"})).text

\* The loop of a run is over without the error flag.
C39_LoopEndedWithoutError ==
    /\ Len(tasks) = 1 /\ tasks[1].pc = "persist" /\ ~tasks[1].had_error
    /\ Last(log).type = "Finished"

====
